---- MODULE Spec2Model ----
(***************************************************************************)
(* MetricsRefreshManager (src/backend/refresh_manager.py): the refresh     *)
(* orchestrator of the developer-metrics dashboard.  The model follows     *)
(* refresh_user_metrics statement by statement wherever a statement reads  *)
(* or writes the manager's shared maps (cache, cache_timestamps,           *)
(* refresh_locks, request_timestamps, priority_queue), so that caller      *)
(* threads and background worker threads interleave between statements.    *)
(* Calls into the collaborators (SourceAPI, Store) are steps whose outcome *)
(* is chosen by the environment among the outcomes their code can produce. *)
(***************************************************************************)
EXTENDS Integers, Sequences, FiniteSets, TLC

(* ---------------------------------------------------------------- bounds *)
\* number of max-age periods the clock advances one at a time
MaxTicks == 1
\* number of refresh_user_metrics calls the request threads make
MaxCalls == 3
\* number of RefreshTask objects ever created
MaxTasks == 1
\* model value of MAX_REQUESTS_PER_HOUR (4000 in the source), scaled down
RequestBudget == 1
\* longest list of tracked repositories the Store returns
MaxRepos == 2
\* longest list of tracked repositories in the scenarios with several threads
MaxReposConcurrent == 1
\* number of worker threads ever started
MaxWorkers == 1

(* ------------------------------------------------------ program constants *)
RATE_LIMIT_WINDOW == 3600
CACHE_MAX_AGE_MINUTES == 15
MAX_REQUESTS_PER_HOUR == RequestBudget

\* one tick of the model clock: exactly the cache max age, in seconds
TickSeconds == CACHE_MAX_AGE_MINUTES * 60

(* ------------------------------------------------------------- universes *)
Callers == {"c1", "c2"}
\* the thread of the synchronous request path in the scenario with a worker
Host == {"c1"}
\* the Thread objects start_background_worker creates, in creation order
WorkerSlots == <<"w1", "w2">>
Workers == {WorkerSlots[i] : i \in DOMAIN WorkerSlots}
Threads == Callers \cup Workers

Emails == {"dev@x"}
Scopes == {"global", "tracked", "weekly"}
\* entries get_user_repos can return: two well-formed full names, an entry with
\* an empty name, and a name without "/"
RepoEntries == {"o/a", "o/b", "", "solo"}
HasSlash(r) == r \in {"o/a", "o/b"}

\* cache_key = f"user_metrics_{email}_{scope}"
CacheKey(email, scope) == <<"user_metrics", email, scope>>
Keys == {CacheKey(e, s) : e \in Emails, s \in Scopes}

VARIABLES
  now,                      \* wall clock (seconds): datetime.now() / time.time()
  cache,                    \* self.cache: dict cache_key -> metrics
  cache_timestamps,         \* self.cache_timestamps: dict cache_key -> datetime
  refresh_locks,            \* keys of self.refresh_locks (its values are never read)
  request_timestamps,       \* self.request_timestamps: list of time.time() values
  priority_queue,           \* self.priority_queue: FIFO Queue of task dicts
  background_worker_running, \* self.background_worker_running
  worker_thread,            \* self.worker_thread
  calls_made,               \* how many calls the request threads have made
  tasks_created,            \* identity counter for the task dicts put on the queue
  processed,                \* per task id: forced refreshes the workers ran for it
  pc,                       \* per thread: the statement it is about to execute
  call,                     \* per thread: arguments of its refresh_user_metrics call
  rl_now,                   \* per thread: local `now` of check_rate_limit
  effects,                  \* per thread: what its current call has done so far
  result,                   \* per thread: value returned (or exception raised)
  \* BackgroundMetricsService.refresh_user_metrics_async (its worker pool)
  pool_pc,                  \* the statement the refresh is about to execute
  futures,                  \* per repository: its fetch_commits and fetch_prs futures
  pool_i,                   \* index of the repository whose results are collected
  pool_sources,             \* repositories extended into all_commits / all_prs
  pool_skipped,             \* repositories whose results were given up (154 - 156)
  \* EnhancedMLAnalyzer
  models,                   \* self.models: dict metric_name -> model info
  model_metadata,           \* self.model_metadata: dict metric_name -> metadata
  scalers,                  \* self.scalers: dict metric_name -> scaler
  last_training_data,       \* self.last_training_data: dict metric_name -> dict
  disk,                     \* ml_models/<metric_name>.pkl: the pickled blobs
  ml_call,                  \* the last analyzer call and what it returned
  \* EnhancedMetricsCalculator
  calc_in,                  \* the arguments of the last calculate_all_metrics call
  calc_out                  \* what that call returned (or raised)

pool_vars == <<pool_pc, futures, pool_i, pool_sources, pool_skipped>>
ml_vars == <<models, model_metadata, scalers, last_training_data, disk, ml_call>>
calc_vars == <<calc_in, calc_out>>
\* the state of the components other than the refresh manager
outside == <<pool_vars, ml_vars, calc_vars>>

manager_vars == <<now, cache, cache_timestamps, refresh_locks,
                  request_timestamps, priority_queue,
                  background_worker_running, worker_thread, calls_made,
                  tasks_created, processed, pc, call, rl_now, effects, result>>

vars == <<manager_vars, outside>>

shared == <<cache, cache_timestamps, refresh_locks, request_timestamps,
            priority_queue>>

(* ------------------------------------------------------------ result dicts *)
NoCall == [email |-> "", scope |-> "", force |-> FALSE]
NoResult == [kind |-> "none"]
CacheHit(m) == [success |-> TRUE, metrics |-> m, source |-> "cache"]
Ok(m) == [success |-> TRUE, metrics |-> m]
Fail(e) == [success |-> FALSE, error |-> e]
RateLimited == [success |-> FALSE, error |-> "rate_limited", queued |-> TRUE]
Raised(e) == [raised |-> e]

KeyOf(t) == CacheKey(call[t].email, call[t].scope)

EmptyDict == [x \in {} |-> 0]
\* dict assignment d[k] = v
DictPut(d, k, v) == [x \in (DOMAIN d) \cup {k} |-> IF x = k THEN v ELSE d[x]]
\* dict removal d.pop(k, None)
DictPop(d, k) == [x \in (DOMAIN d) \ {k} |-> d[x]]

(* ------------------------------------------------------- cache (62 - 84) *)
NoMetrics == [kind |-> "None"]

\* should_refresh with an entry of exactly the max age taken as stale
should_refresh_at_max_age(k) ==
  IF k \notin DOMAIN cache_timestamps THEN TRUE
  ELSE (now - cache_timestamps[k]) >= CACHE_MAX_AGE_MINUTES * 60

\* should_refresh(cache_key) with the default max age
should_refresh(k) ==
  IF k \notin DOMAIN cache_timestamps THEN TRUE
  ELSE (now - cache_timestamps[k]) > CACHE_MAX_AGE_MINUTES * 60

\* get_cached_metrics(cache_key): the cached dict, or None
get_cached_metrics(k) ==
  IF k \in DOMAIN cache /\ ~should_refresh(k) THEN cache[k] ELSE NoMetrics

(* ------------------------------------------- the tracked-scope repo loop *)
EmptyAcc == [failed_repos |-> << >>, repo_metrics |-> {}, sources |-> {},
             exception |-> FALSE]

\* the for loop of _refresh_tracked_metrics (334 - 371).  outs[i] is what the
\* SourceAPI does for repos[i]: "data" (some commits or PRs), "empty" (none),
\* "raise" (fetch_commits or fetch_pull_requests raises).  sources is the set of
\* repositories whose events were extended into all_commits / all_prs.
RECURSIVE TrackedLoop(_, _, _, _)
TrackedLoop(repos, outs, i, acc) ==
  IF i > Len(repos) THEN acc
  ELSE LET r == repos[i] IN
    IF r = "" THEN TrackedLoop(repos, outs, i + 1, acc)
    ELSE IF ~HasSlash(r) THEN [acc EXCEPT !.exception = TRUE]
    ELSE IF outs[i] = "raise"
      THEN TrackedLoop(repos, outs, i + 1,
             [acc EXCEPT !.failed_repos =
                Append(@, [repo |-> r, error |-> "fetch_error"])])
      ELSE TrackedLoop(repos, outs, i + 1,
             [acc EXCEPT !.repo_metrics = @ \cup {r},
                         !.sources = IF outs[i] = "data" THEN @ \cup {r} ELSE @])

\* combined_metrics of a tracked refresh (382 - 393)
TrackedMetrics(repos, acc) ==
  [scope |-> "tracked",
   tracked_repositories |-> Len(repos),
   successful_repos |-> Len(repos) - Len(acc.failed_repos),
   failed_repos |-> acc.failed_repos,
   repository_breakdown |-> acc.repo_metrics,
   sources |-> acc.sources]

\* _refresh_tracked_metrics(email, user_id)
refresh_tracked_metrics(repos, outs) ==
  LET acc == TrackedLoop(repos, outs, 1, EmptyAcc) IN
  IF repos = << >> THEN Fail("no_tracked_repositories")
  ELSE IF acc.exception THEN Fail("exception")
  ELSE IF acc.sources = {} THEN Fail("no_activity_in_tracked_repos")
  ELSE Ok(TrackedMetrics(repos, acc))

\* metrics of a global refresh (206 - 218, 305)
GlobalMetrics ==
  [scope |-> "global",
   tracked_repositories |-> 0, successful_repos |-> 0,
   failed_repos |-> << >>, repository_breakdown |-> {}, sources |-> {}]

\* _refresh_global_metrics(email, user_id): out is what the collaborators do
refresh_global_metrics(out) ==
  CASE out = "fetch_error" -> Fail("failed_to_fetch_activity")
    [] out = "no_activity" -> Fail("no_activity_found")
    [] out = "exception" -> Fail("exception")
    \* 297: generate_comprehensive_summary raises; only the except of 312
    \* catches it, the metrics computed so far are dropped
    [] out = "summarizer_raises" -> Fail("exception")
    [] OTHER -> Ok(GlobalMetrics)

GlobalOutcomes ==
  {"ok", "fetch_error", "no_activity", "exception", "summarizer_raises"}
FetchOutcomes == {"data", "empty", "raise"}

\* lists of distinct entries, at most len long
RepoLists(len) ==
  {l \in UNION {[1..n -> RepoEntries] : n \in 0..len} :
     \A i, j \in DOMAIN l : i # j => l[i] # l[j]}

(* ----------------------------------------------------------------- Init *)
Init ==
  /\ now = 0
  /\ cache = EmptyDict
  /\ cache_timestamps = EmptyDict
  /\ refresh_locks = {}
  /\ request_timestamps = << >>
  /\ priority_queue = << >>
  /\ background_worker_running = FALSE
  /\ worker_thread = "None"
  /\ calls_made = 0
  /\ tasks_created = 0
  /\ processed = [i \in 1..MaxTasks |-> 0]
  /\ pc = [t \in Threads |-> IF t \in Callers THEN "idle" ELSE "unstarted"]
  /\ call = [t \in Threads |-> NoCall]
  /\ rl_now = [t \in Threads |-> 0]
  /\ effects = [t \in Threads |-> {}]
  /\ result = [t \in Threads |-> NoResult]
  /\ pool_pc = "idle"
  /\ futures = << >>
  /\ pool_i = 0
  /\ pool_sources = {}
  /\ pool_skipped = {}
  /\ models = EmptyDict
  /\ model_metadata = EmptyDict
  /\ scalers = EmptyDict
  /\ last_training_data = EmptyDict
  /\ disk = EmptyDict
  /\ ml_call = [seq |-> 0, op |-> "none", subject |-> "", metric |-> "",
                len |-> 0, ret |-> FALSE, did |-> "none", save |-> "none",
                forecast_from |-> {}, unreadable |-> {}, age_hours |-> 0]
  /\ calc_in = [commits |-> 0, pull_requests |-> << >>, called |-> FALSE]
  /\ calc_out = NoResult

control == <<background_worker_running, worker_thread, calls_made>>
Goto(t, l) == pc' = [pc EXCEPT ![t] = l]
Did(t, e) == effects' = [effects EXCEPT ![t] = @ \cup {e}]
Returns(t, r) == result' = [result EXCEPT ![t] = r]

(* --------------------------------- refresh_user_metrics (102 - 183) steps *)
\* a caller thread calls refresh_user_metrics(email, scope, force)
Call(t, e, s, f) ==
  /\ t \in Callers /\ pc[t] = "idle"
  /\ calls_made < MaxCalls
  /\ calls_made' = calls_made + 1
  /\ call' = [call EXCEPT ![t] = [email |-> e, scope |-> s, force |-> f]]
  /\ Goto(t, "check_cache")
  /\ UNCHANGED <<outside, now, shared, background_worker_running, worker_thread,
                 tasks_created, processed, rl_now, effects, result>>

\* 106 - 114: serve from the cache unless forced
ServedFromCache(t) ==
  ~call[t].force /\ get_cached_metrics(KeyOf(t)) # NoMetrics

CheckCache(t) ==
  /\ pc[t] = "check_cache"
  /\ IF ServedFromCache(t)
       THEN /\ Returns(t, CacheHit(get_cached_metrics(KeyOf(t))))
            /\ Goto(t, "done")
       ELSE /\ Goto(t, "check_lock")
            /\ UNCHANGED result
  /\ call' = [call EXCEPT ![t].force = FALSE]   \* force is not read again
  /\ UNCHANGED <<outside, now, shared, control, tasks_created, processed, rl_now,
                 effects>>

\* the check of 117 never finding the marker
never_in_progress(k) == FALSE

\* 117: if cache_key in self.refresh_locks
refresh_in_progress(k) == k \in refresh_locks

\* 116 - 122: a refresh of this key is already marked in progress
CheckLock(t) ==
  /\ pc[t] = "check_lock"
  /\ IF refresh_in_progress(KeyOf(t))
       THEN /\ Returns(t, Fail("refresh_in_progress"))
            /\ Goto(t, "done")
       ELSE /\ Goto(t, "acquire")
            /\ UNCHANGED result
  /\ UNCHANGED <<outside, now, shared, control, tasks_created, processed, call, rl_now,
                 effects>>

\* 124 - 125: self.refresh_locks[cache_key] = datetime.now()
Acquire(t) ==
  /\ pc[t] = "acquire"
  /\ refresh_locks' = refresh_locks \cup {KeyOf(t)}
  /\ Did(t, "lock")
  /\ Goto(t, "rl_prune")
  /\ UNCHANGED <<outside, now, cache, cache_timestamps, request_timestamps,
                 priority_queue, control, tasks_created, processed, call,
                 rl_now, result>>

\* check_rate_limit 88 - 94: now = time.time(); drop the timestamps outside
\* the window
InWindow(ts, at) == at - ts < RATE_LIMIT_WINDOW

RlPrune(t) ==
  /\ pc[t] = "rl_prune"
  /\ rl_now' = [rl_now EXCEPT ![t] = now]
  /\ request_timestamps' =
       SelectSeq(request_timestamps, LAMBDA ts : InWindow(ts, now))
  /\ Goto(t, "rl_check")
  /\ UNCHANGED <<outside, now, cache, cache_timestamps, refresh_locks, priority_queue,
                 control, tasks_created, processed, call, effects, result>>

\* check_rate_limit 96 - 97: can_make_request
can_make_request == Len(request_timestamps) < MAX_REQUESTS_PER_HOUR

RlCheck(t) ==
  /\ pc[t] = "rl_check"
  /\ IF can_make_request THEN Goto(t, "rl_append") ELSE Goto(t, "enqueue")
  /\ UNCHANGED <<outside, now, shared, control, tasks_created, processed, call, rl_now,
                 effects, result>>

\* check_rate_limit 98 - 100: self.request_timestamps.append(now)
RlAppend(t) ==
  /\ pc[t] = "rl_append"
  /\ request_timestamps' = Append(request_timestamps, rl_now[t])
  /\ rl_now' = [rl_now EXCEPT ![t] = 0]
  /\ Did(t, "rate")
  /\ Goto(t, "get_user")
  /\ UNCHANGED <<outside, now, cache, cache_timestamps, refresh_locks, priority_queue,
                 control, tasks_created, processed, call, result>>

\* the task dict of 131 - 136; id stands for the identity of the dict object
RefreshTask(t, id) ==
  [type |-> "user_metrics", email |-> call[t].email, scope |-> call[t].scope,
   timestamp |-> now, id |-> id]

\* 129 - 141: rate limited: queue the refresh for later
Enqueue(t) ==
  /\ pc[t] = "enqueue"
  /\ tasks_created < MaxTasks
  /\ tasks_created' = tasks_created + 1
  /\ priority_queue' = Append(priority_queue, RefreshTask(t, tasks_created + 1))
  /\ rl_now' = [rl_now EXCEPT ![t] = 0]
  /\ Did(t, "enqueue")
  /\ Returns(t, RateLimited)
  /\ Goto(t, "fin_check")
  /\ UNCHANGED <<outside, now, cache, cache_timestamps, refresh_locks,
                 request_timestamps, control, processed, call>>

\* the branch of 153 - 161 on the scope
Dispatch(s) ==
  CASE s = "global" -> "refresh_global"
    [] s = "tracked" -> "refresh_tracked"
    [] OTHER -> "invalid_scope"

\* 143 - 161: Store.ensure_user_exists_and_get_id returns an id or None
GetUser(t) ==
  /\ pc[t] = "get_user"
  /\ \E found \in BOOLEAN :
       IF ~found
         THEN Returns(t, Fail("user_not_found")) /\ Goto(t, "fin_check")
         ELSE IF Dispatch(call[t].scope) = "invalid_scope"
           THEN Returns(t, Fail("invalid_scope")) /\ Goto(t, "fin_check")
           ELSE UNCHANGED result /\ Goto(t, Dispatch(call[t].scope))
  /\ Did(t, "store_call")
  /\ UNCHANGED <<outside, now, shared, control, tasks_created, processed, call, rl_now>>

\* a failed result returned without passing through the finally block
AfterRefreshSkipFinally(r) == IF r.success THEN "cache_put" ELSE "done"

\* where a call goes with the result of _refresh_*_metrics (163, 172)
AfterRefresh(r) == IF r.success THEN "cache_put" ELSE "fin_check"

\* 154: result = self._refresh_global_metrics(email, user_id)
RefreshGlobal(t) ==
  /\ pc[t] = "refresh_global"
  /\ \E out \in GlobalOutcomes :
       LET r == refresh_global_metrics(out) IN
       /\ Returns(t, r) /\ Goto(t, AfterRefresh(r))
       /\ effects' = [effects EXCEPT ![t] =
                        @ \cup {"fetch"} \cup
                        (IF out = "summarizer_raises"
                         THEN {"summary_failed"} ELSE {})]
  /\ UNCHANGED <<outside, now, shared, control, tasks_created, processed, call,
                 rl_now>>

\* 156: result = self._refresh_tracked_metrics(email, user_id)
\* "repo_failed" records that the fetch of some repository raised (366 - 370)
RefreshTracked(t, len) ==
  /\ pc[t] = "refresh_tracked"
  /\ \E repos \in RepoLists(len) :
     \E outs \in [DOMAIN repos -> FetchOutcomes] :
       LET r == refresh_tracked_metrics(repos, outs)
           acc == TrackedLoop(repos, outs, 1, EmptyAcc)
       IN /\ Returns(t, r) /\ Goto(t, AfterRefresh(r))
          /\ effects' = [effects EXCEPT ![t] = @ \cup {"fetch"} \cup
                 (IF acc.failed_repos # << >> THEN {"repo_failed"} ELSE {})]
  /\ UNCHANGED <<outside, now, shared, control, tasks_created, processed, call, rl_now>>

\* 165 -> 82: self.cache[cache_key] = metrics
CachePut(t) ==
  /\ pc[t] = "cache_put"
  /\ cache' = DictPut(cache, KeyOf(t), result[t].metrics)
  /\ Did(t, "cache")
  /\ Goto(t, "cache_stamp")
  /\ UNCHANGED <<outside, now, cache_timestamps, refresh_locks, request_timestamps,
                 priority_queue, control, tasks_created, processed, call,
                 rl_now, result>>

\* 165 -> 83: self.cache_timestamps[cache_key] = datetime.now()
CacheStamp(t) ==
  /\ pc[t] = "cache_stamp"
  /\ cache_timestamps' = DictPut(cache_timestamps, KeyOf(t), now)
  /\ Goto(t, "save")
  /\ UNCHANGED <<outside, now, cache, refresh_locks, request_timestamps,
                 priority_queue, control, tasks_created, processed, call,
                 rl_now, effects, result>>

\* 167 - 172: Store.save_user_metrics returns True or False; the result of the
\* refresh is returned either way
Save(t) ==
  /\ pc[t] = "save"
  /\ \E saved \in BOOLEAN :
       Did(t, IF saved THEN "save_ok" ELSE "save_failed")
  /\ Goto(t, "fin_check")
  /\ UNCHANGED <<outside, now, shared, control, tasks_created, processed, call, rl_now,
                 result>>

\* 180 - 182: finally: if cache_key in self.refresh_locks
FinCheck(t) ==
  /\ pc[t] = "fin_check"
  /\ IF KeyOf(t) \in refresh_locks THEN Goto(t, "fin_del") ELSE Goto(t, "done")
  /\ UNCHANGED <<outside, now, shared, control, tasks_created, processed, call, rl_now,
                 effects, result>>

\* 183: del self.refresh_locks[cache_key]; KeyError when the key is gone,
\* which replaces the pending return value
FinDel(t) ==
  /\ pc[t] = "fin_del"
  /\ refresh_locks' = refresh_locks \ {KeyOf(t)}
  /\ IF KeyOf(t) \in refresh_locks
       THEN UNCHANGED result
       ELSE Returns(t, Raised("KeyError"))
  /\ Goto(t, "done")
  /\ UNCHANGED <<outside, now, cache, cache_timestamps, request_timestamps,
                 priority_queue, control, tasks_created, processed, call,
                 rl_now, effects>>

\* the call is over for a caller thread
Return(t) ==
  /\ t \in Callers /\ pc[t] = "done"
  /\ Goto(t, "idle")
  /\ call' = [call EXCEPT ![t] = NoCall]
  /\ effects' = [effects EXCEPT ![t] = {}]
  /\ result' = [result EXCEPT ![t] = NoResult]
  /\ UNCHANGED <<outside, now, shared, control, tasks_created, processed, rl_now>>

(* ------------------------------------ background worker (461 - 505) steps *)
Alive(w) == pc[w] \notin {"unstarted", "exited"}

\* 461 - 496: start_background_worker when no worker is flagged as running
\* (with the flag set it returns at 464 and changes nothing)
StartWorker(t, slots) ==
  /\ t \in Callers /\ pc[t] = "idle"
  /\ ~background_worker_running
  /\ \E i \in 1..slots :
       /\ pc[WorkerSlots[i]] = "unstarted"
       /\ \A j \in 1..(i - 1) : pc[WorkerSlots[j]] # "unstarted"
       /\ worker_thread' = WorkerSlots[i]
       /\ Goto(WorkerSlots[i], "w_loop")
  /\ background_worker_running' = TRUE
  /\ UNCHANGED <<outside, now, shared, calls_made, tasks_created, processed, call,
                 rl_now, effects, result>>

\* 471: while self.background_worker_running
WorkerLoop(w) ==
  /\ w \in Workers /\ pc[w] = "w_loop"
  /\ IF background_worker_running THEN Goto(w, "w_get") ELSE Goto(w, "exited")
  /\ UNCHANGED <<outside, now, shared, control, tasks_created, processed, call, rl_now,
                 effects, result>>

\* a get that hands out the head of the queue and leaves it there
QueuePeek(q) == [task |-> Head(q), rest |-> q]

\* Queue.get: the task handed to the worker, and what is left on the queue
QueueGet(q) == [task |-> Head(q), rest |-> Tail(q)]

\* 474 - 482: a task is taken off the queue and refreshed with force=True
WorkerGet(w) ==
  /\ w \in Workers /\ pc[w] = "w_get"
  /\ priority_queue # << >>
  /\ LET got == QueueGet(priority_queue) IN
       /\ priority_queue' = got.rest
       /\ call' = [call EXCEPT ![w] = [email |-> got.task.email,
                                       scope |-> got.task.scope,
                                       force |-> TRUE]]
       /\ processed' = [processed EXCEPT ![got.task.id] = @ + 1]
  /\ effects' = [effects EXCEPT ![w] = {}]
  /\ result' = [result EXCEPT ![w] = NoResult]
  /\ Goto(w, "check_cache")
  /\ UNCHANGED <<outside, now, cache, cache_timestamps, refresh_locks,
                 request_timestamps, control, tasks_created, rl_now>>

\* 474, 486 - 487: the queue stayed empty for PRIORITY_QUEUE_TIMEOUT: continue
WorkerTimeout(w) ==
  /\ w \in Workers /\ pc[w] = "w_get"
  /\ priority_queue = << >>
  /\ Goto(w, "w_loop")
  /\ UNCHANGED <<outside, now, shared, control, tasks_created, processed, call, rl_now,
                 effects, result>>

\* 478 - 490: refresh_user_metrics returned (484 task_done) or raised (489)
WorkerDone(w) ==
  /\ w \in Workers /\ pc[w] = "done"
  /\ Goto(w, "w_sleep")
  /\ call' = [call EXCEPT ![w] = NoCall]
  /\ effects' = [effects EXCEPT ![w] = {}]
  /\ result' = [result EXCEPT ![w] = NoResult]
  /\ UNCHANGED <<outside, now, shared, control, tasks_created, processed, rl_now>>

\* 492: time.sleep(BACKGROUND_WORKER_SLEEP)
WorkerSleep(w) ==
  /\ w \in Workers /\ pc[w] = "w_sleep"
  /\ Goto(w, "w_loop")
  /\ UNCHANGED <<outside, now, shared, control, tasks_created, processed, call, rl_now,
                 effects, result>>

\* 498 - 500: stop_background_worker clears the flag
StopWorker(t) ==
  /\ t \in Callers /\ pc[t] = "idle"
  /\ background_worker_running' = FALSE
  /\ Goto(t, "joining")
  /\ UNCHANGED <<outside, now, shared, worker_thread, calls_made, tasks_created,
                 processed, call, rl_now, effects, result>>

\* 502 - 503: there is no live thread to join, or join(timeout=2) is over: the
\* thread finished, or 2 seconds passed while it sat in get() (up to 30 s), in
\* a forced refresh, or in sleep(5)
JoinOver(t) ==
  IF worker_thread = "None" THEN TRUE
  ELSE ~Alive(worker_thread) \/ pc[worker_thread] # "w_loop"

\* 502 - 505: stop_background_worker returns
StopReturn(t) ==
  /\ t \in Callers /\ pc[t] = "joining"
  /\ JoinOver(t)
  /\ Goto(t, "idle")
  /\ UNCHANGED <<outside, now, shared, control, tasks_created, processed, call, rl_now,
                 effects, result>>

\* time passes: one max-age period, or up to the moment the rate-limit window
\* that opened at 0 closes
Tick ==
  /\ now < RATE_LIMIT_WINDOW
  /\ \/ now < MaxTicks * TickSeconds /\ now' = now + TickSeconds
     \/ now' = RATE_LIMIT_WINDOW
  /\ UNCHANGED <<outside, shared, control, tasks_created, processed, pc, call, rl_now,
                 effects, result>>

\* Scenario 1: request threads call refresh_user_metrics concurrently.
Next ==
  \/ \E t \in Callers : \E e \in Emails : \E s \in Scopes : \E f \in BOOLEAN :
       Call(t, e, s, f)
  \/ \E t \in Callers : CheckCache(t)
  \/ \E t \in Callers : CheckLock(t)
  \/ \E t \in Callers : Acquire(t)
  \/ \E t \in Callers : RlPrune(t)
  \/ \E t \in Callers : RlCheck(t)
  \/ \E t \in Callers : RlAppend(t)
  \/ \E t \in Callers : Enqueue(t)
  \/ \E t \in Callers : GetUser(t)
  \/ \E t \in Callers : RefreshGlobal(t)
  \/ \E t \in Callers : RefreshTracked(t, MaxReposConcurrent)
  \/ \E t \in Callers : CachePut(t)
  \/ \E t \in Callers : CacheStamp(t)
  \/ \E t \in Callers : Save(t)
  \/ \E t \in Callers : FinCheck(t)
  \/ \E t \in Callers : FinDel(t)
  \/ \E t \in Callers : Return(t)
  \/ Tick

Spec == Init /\ [][Next]_vars

\* Scenario 2: one synchronous request path (which also starts and stops the
\* worker, as refresh_all_metrics does) and the background worker thread.
WorkerThreads == Host \cup Workers

NextWorker ==
  \/ \E t \in Host : \E e \in Emails : \E s \in Scopes : \E f \in BOOLEAN :
       Call(t, e, s, f)
  \/ \E t \in WorkerThreads : CheckCache(t)
  \/ \E t \in WorkerThreads : CheckLock(t)
  \/ \E t \in WorkerThreads : Acquire(t)
  \/ \E t \in WorkerThreads : RlPrune(t)
  \/ \E t \in WorkerThreads : RlCheck(t)
  \/ \E t \in WorkerThreads : RlAppend(t)
  \/ \E t \in WorkerThreads : Enqueue(t)
  \/ \E t \in WorkerThreads : GetUser(t)
  \/ \E t \in WorkerThreads : RefreshGlobal(t)
  \/ \E t \in WorkerThreads : RefreshTracked(t, MaxReposConcurrent)
  \/ \E t \in WorkerThreads : CachePut(t)
  \/ \E t \in WorkerThreads : CacheStamp(t)
  \/ \E t \in WorkerThreads : Save(t)
  \/ \E t \in WorkerThreads : FinCheck(t)
  \/ \E t \in WorkerThreads : FinDel(t)
  \/ \E t \in Host : Return(t)
  \/ \E t \in Host : StartWorker(t, MaxWorkers)
  \/ \E t \in Host : StopWorker(t)
  \/ \E t \in Host : StopReturn(t)
  \/ \E w \in Workers : WorkerLoop(w)
  \/ \E w \in Workers : WorkerGet(w)
  \/ \E w \in Workers : WorkerTimeout(w)
  \/ \E w \in Workers : WorkerDone(w)
  \/ \E w \in Workers : WorkerSleep(w)
  \/ Tick

SpecWorker == Init /\ [][NextWorker]_vars

\* Scenario 3: one request thread alone, with tracked-repository lists of up
\* to MaxRepos entries.
NextTracked ==
  \/ \E t \in Host : \E e \in Emails : \E s \in Scopes : \E f \in BOOLEAN :
       Call(t, e, s, f)
  \/ \E t \in Host : CheckCache(t)
  \/ \E t \in Host : CheckLock(t)
  \/ \E t \in Host : Acquire(t)
  \/ \E t \in Host : RlPrune(t)
  \/ \E t \in Host : RlCheck(t)
  \/ \E t \in Host : RlAppend(t)
  \/ \E t \in Host : Enqueue(t)
  \/ \E t \in Host : GetUser(t)
  \/ \E t \in Host : RefreshGlobal(t)
  \/ \E t \in Host : RefreshTracked(t, MaxRepos)
  \/ \E t \in Host : CachePut(t)
  \/ \E t \in Host : CacheStamp(t)
  \/ \E t \in Host : Save(t)
  \/ \E t \in Host : FinCheck(t)
  \/ \E t \in Host : FinDel(t)
  \/ \E t \in Host : Return(t)
  \/ Tick

SpecTracked == Init /\ [][NextTracked]_vars

(* ================================================================ claims *)
\* a thread is between acquiring the in-progress marker (125) and releasing
\* it (182 - 183)
HoldingPcs == {"rl_prune", "rl_check", "rl_append", "enqueue", "get_user",
               "refresh_global", "refresh_tracked", "cache_put",
               "cache_stamp", "save", "fin_check", "fin_del"}
Holding(t) == pc[t] \in HoldingPcs
NoRefreshExecuting == \A t \in Threads : ~Holding(t)
MaxAgeSeconds == CACHE_MAX_AGE_MINUTES * 60

\* C1: for every (subject, scope) key at most one refresh_user_metrics
\* execution is between acquiring the in-progress marker and releasing it.
C1_AtMostOneInFlight ==
  \A k \in Keys : Cardinality({t \in Threads : Holding(t) /\ KeyOf(t) = k}) <= 1

\* C2: a call that took the marker leaves the section between acquire and
\* release only by returning, and when it does its key is no longer in the
\* marker set; whenever no refresh is executing the marker set is empty.
C2_MarkerAlwaysReleased ==
  /\ [](NoRefreshExecuting => refresh_locks = {})
  /\ [][\A t \in Threads :
          (Holding(t) /\ pc'[t] \notin HoldingPcs)
            => (pc'[t] = "done" /\ KeyOf(t) \notin refresh_locks')]_vars

\* a call that took the marker and ended on a caught exception has returned,
\* another one that was rate limited has returned, and no marker is left
C2_Witness ==
  /\ refresh_locks = {}
  /\ \E t \in Threads :
       pc[t] = "done" /\ "lock" \in effects[t] /\ result[t] = Fail("exception")
  /\ \E t \in Threads :
       pc[t] = "done" /\ "lock" \in effects[t] /\ result[t] = RateLimited

\* C3: a call that is not served from the cache and finds the marker of its
\* key set returns {success: False, error: "refresh_in_progress"} in that very
\* step, and cache, cache timestamps, rate-limiter window, priority queue and
\* marker set are left as they were; such a call has taken no marker, used no
\* rate-limit budget and called no collaborator.
C3_InProgressReturnsAtOnce ==
  /\ [][\A t \in Threads :
          (pc[t] = "check_lock" /\ KeyOf(t) \in refresh_locks
             /\ pc'[t] # "check_lock")
            => /\ pc'[t] = "done"
               /\ result'[t] = [success |-> FALSE, error |-> "refresh_in_progress"]
               /\ effects'[t] = {}
               /\ UNCHANGED <<cache, cache_timestamps, request_timestamps,
                              priority_queue, refresh_locks>>]_vars

\* a call has returned refresh_in_progress while another call holds the marker
C3_Witness ==
  \E t \in Threads :
    /\ pc[t] = "done"
    /\ result[t] = [success |-> FALSE, error |-> "refresh_in_progress"]
    /\ \E u \in Threads \ {t} : Holding(u) /\ KeyOf(u) = KeyOf(t)

\* the key has a cache entry whose age is at most the max age
FreshEntry(k) ==
  /\ k \in DOMAIN cache
  /\ k \in DOMAIN cache_timestamps
  /\ now - cache_timestamps[k] <= MaxAgeSeconds

\* C4: the first step of a call returns the cached payload, unchanged and
\* tagged source=cache, with no marker, budget, task or collaborator call, if
\* and only if force is false and the key has a cache entry of age <= max age;
\* otherwise the call goes on to the in-progress check.
C4_CacheServedIffFresh ==
  [][\A t \in Threads :
       (pc[t] = "check_cache" /\ pc'[t] # "check_cache")
         => IF ~call[t].force /\ FreshEntry(KeyOf(t))
              THEN /\ pc'[t] = "done"
                   /\ result'[t] = [success |-> TRUE,
                                    metrics |-> cache[KeyOf(t)],
                                    source |-> "cache"]
                   /\ effects'[t] = {}
                   /\ UNCHANGED <<cache, cache_timestamps, request_timestamps,
                                  priority_queue, refresh_locks, tasks_created>>
              ELSE /\ pc'[t] = "check_lock"
                   /\ result'[t] = NoResult]_vars

\* a call was served from the cache with an entry exactly max age old
C4_Witness ==
  \E t \in Threads :
    /\ pc[t] = "done"
    /\ KeyOf(t) \in DOMAIN cache
    /\ KeyOf(t) \in DOMAIN cache_timestamps
    /\ result[t] = CacheHit(cache[KeyOf(t)])
    /\ now - cache_timestamps[KeyOf(t)] = MaxAgeSeconds

\* C5: a call the rate limiter rejected returns
\* {success: False, error: "rate_limited", queued: True} and has done no
\* fetch, no cache write and no Store write.
C5_RateLimitedCallReturnsQueued ==
  \A t \in Threads :
    (pc[t] = "done" /\ "enqueue" \in effects[t])
      => /\ result[t] = [success |-> FALSE, error |-> "rate_limited",
                         queued |-> TRUE]
         /\ effects[t] \cap {"fetch", "cache", "save_ok", "save_failed"} = {}

\* C6: refresh_user_metrics never raises: whatever a finished call hands to
\* its caller is a result dict.
C6_NeverRaises ==
  \A t \in Threads : pc[t] = "done" => "success" \in DOMAIN result[t]

InQueue(id) == \E i \in DOMAIN priority_queue : priority_queue[i].id = id

\* C7: a task that was put on the queue is either still on it and unprocessed,
\* or off it and processed exactly once; and a task leaves the queue only in
\* the step in which a worker starts refresh_user_metrics(email, scope,
\* force=True) for it.
C7_ConsumedExactlyOnce ==
  /\ [](\A id \in 1..MaxTasks :
          /\ processed[id] <= 1
          /\ id > tasks_created => (processed[id] = 0 /\ ~InQueue(id))
          /\ id <= tasks_created => ((processed[id] = 1) <=> ~InQueue(id)))
  /\ [][priority_queue # priority_queue' /\
          Len(priority_queue') <= Len(priority_queue)
          => /\ priority_queue' = Tail(priority_queue)
             /\ \E w \in Workers :
                  /\ pc[w] = "w_get" /\ pc'[w] = "check_cache"
                  /\ call'[w] = [email |-> Head(priority_queue).email,
                                 scope |-> Head(priority_queue).scope,
                                 force |-> TRUE]]_vars

\* the worker took a task off the queue and its forced refresh has finished
C7_Witness ==
  \E id \in 1..MaxTasks : \E w \in Workers :
    processed[id] = 1 /\ ~InQueue(id) /\ pc[w] = "done"

\* C8: once stop_background_worker has returned, no background worker thread
\* is running.
C8_NoWorkerAfterStop ==
  (~background_worker_running /\ \A t \in Callers : pc[t] # "joining")
    => \A w \in Workers : ~Alive(w)

\* C9: a tracked refresh in which the fetch of some repository failed still
\* returns success, and the failed repositories are in failed_repos and
\* neither in the aggregate nor in the repository breakdown.
C9_PartialFailureStillSucceeds ==
  \A t \in Threads :
    ("repo_failed" \in effects[t] /\ "raised" \notin DOMAIN result[t])
      => /\ result[t].success
         /\ result[t].metrics.failed_repos # << >>
         /\ \A i \in DOMAIN result[t].metrics.failed_repos :
              result[t].metrics.failed_repos[i].repo \notin
                (result[t].metrics.sources \cup
                 result[t].metrics.repository_breakdown)

\* C10: a call whose fetch and compute succeeded and whose Store save failed
\* returns success with the computed metrics, and the cache holds them.
C10_StoreFailureKeepsResult ==
  \A t \in Threads :
    (pc[t] = "done" /\ "save_failed" \in effects[t])
      => /\ "success" \in DOMAIN result[t]
         /\ result[t].success
         /\ KeyOf(t) \in DOMAIN cache
         /\ cache[KeyOf(t)] = result[t].metrics

\* C11: a failure of the Summarizer during a global refresh leaves the outcome
\* of the refresh a success (same metrics, only the summary missing)
C11_SummarizerFailureKeepsSuccess ==
  \A t \in Callers :
    ("summary_failed" \in effects[t] /\ "success" \in DOMAIN result[t])
      => result[t].success

(* ------------- BackgroundMetricsService.refresh_user_metrics_async (84 - 187) *)
\* at most this many repositories are handed to the pool
MaxPoolRepos == 2
\* 125: ThreadPoolExecutor(max_workers=5)
POOL_MAX_WORKERS == 5

FutureKinds == {"commits", "prs"}
\* a future is pending (queued in the pool), running, hung (running a fetch
\* that never returns), done (returned a list) or raised
Unfinished == {"pending", "running", "hung"}
Occupying == {"running", "hung"}

PoolRepos == IF futures = << >> THEN {} ELSE DOMAIN futures
RunningCount ==
  Cardinality({x \in PoolRepos \X FutureKinds : futures[x[1]][x[2]] \in Occupying})

\* 144 - 156: the next repository of the collection loop, or the end of the
\* with block once every repository has been collected
NextRepo(i) == IF i < Len(futures) THEN "result_commits" ELSE "shutdown"

\* 125 - 141: the pool is created and two fetches are submitted per repository
PoolSubmit(n) ==
  /\ pool_pc = "idle"
  /\ futures' = [r \in 1..n |-> [commits |-> "pending", prs |-> "pending"]]
  /\ pool_i' = 1
  /\ pool_sources' = {}
  /\ pool_skipped' = {}
  /\ pool_pc' = "result_commits"
  /\ UNCHANGED <<manager_vars, ml_vars, calc_vars>>

\* a pool worker takes a queued fetch; the fetch it starts either is one that
\* will return or one that never returns
PoolTaskStart(r, f) ==
  /\ r \in PoolRepos /\ futures[r][f] = "pending"
  /\ pool_pc # "returned"
  /\ RunningCount < POOL_MAX_WORKERS
  /\ \E s \in Occupying : futures' = [futures EXCEPT ![r][f] = s]
  /\ UNCHANGED <<pool_pc, pool_i, pool_sources, pool_skipped,
                 manager_vars, ml_vars, calc_vars>>

\* a running fetch returns its list or raises
PoolTaskFinish(r, f) ==
  /\ r \in PoolRepos /\ futures[r][f] = "running"
  /\ \E s \in {"done", "raised"} : futures' = [futures EXCEPT ![r][f] = s]
  /\ UNCHANGED <<pool_pc, pool_i, pool_sources, pool_skipped,
                 manager_vars, ml_vars, calc_vars>>

\* 146: commits = future_commits.result(timeout=30) returns or re-raises
PoolResultCommits ==
  /\ pool_pc = "result_commits"
  /\ futures[pool_i].commits \notin Unfinished
  /\ IF futures[pool_i].commits = "done"
     THEN /\ pool_pc' = "result_prs"
          /\ UNCHANGED <<pool_i, pool_skipped>>
     ELSE /\ pool_skipped' = pool_skipped \cup {pool_i}
          /\ pool_pc' = NextRepo(pool_i)
          /\ pool_i' = pool_i + 1
  /\ UNCHANGED <<futures, pool_sources, manager_vars, ml_vars, calc_vars>>

\* 146, 154 - 156: the 30 seconds pass before the future finishes; the
\* TimeoutError is caught and the loop continues with the next repository
PoolTimeoutCommits ==
  /\ pool_pc = "result_commits"
  /\ futures[pool_i].commits \in Unfinished
  /\ pool_skipped' = pool_skipped \cup {pool_i}
  /\ pool_pc' = NextRepo(pool_i)
  /\ pool_i' = pool_i + 1
  /\ UNCHANGED <<futures, pool_sources, manager_vars, ml_vars, calc_vars>>

\* 147 - 150: prs = future_prs.result(timeout=30); both lists are extended
PoolResultPrs ==
  /\ pool_pc = "result_prs"
  /\ futures[pool_i].prs \notin Unfinished
  /\ IF futures[pool_i].prs = "done"
     THEN pool_sources' = pool_sources \cup {pool_i} /\ UNCHANGED pool_skipped
     ELSE pool_skipped' = pool_skipped \cup {pool_i} /\ UNCHANGED pool_sources
  /\ pool_pc' = NextRepo(pool_i)
  /\ pool_i' = pool_i + 1
  /\ UNCHANGED <<futures, manager_vars, ml_vars, calc_vars>>

\* 147, 154 - 156: the timeout of the second result()
PoolTimeoutPrs ==
  /\ pool_pc = "result_prs"
  /\ futures[pool_i].prs \in Unfinished
  /\ pool_skipped' = pool_skipped \cup {pool_i}
  /\ pool_pc' = NextRepo(pool_i)
  /\ pool_i' = pool_i + 1
  /\ UNCHANGED <<futures, pool_sources, manager_vars, ml_vars, calc_vars>>

\* 125, 157: leaving the with block calls executor.shutdown(wait=True), which
\* returns once every submitted fetch has finished and the workers are joined
ShutdownReturns == \A x \in PoolRepos \X FutureKinds :
                     futures[x[1]][x[2]] \notin Unfinished

PoolShutdown ==
  /\ pool_pc = "shutdown"
  /\ ShutdownReturns
  /\ pool_pc' = "calculate"
  /\ UNCHANGED <<futures, pool_i, pool_sources, pool_skipped,
                 manager_vars, ml_vars, calc_vars>>

\* 158 - 187: the metrics are computed from all_commits / all_prs, saved and
\* returned (or the error dict is returned)
PoolReturn ==
  /\ pool_pc = "calculate"
  /\ pool_pc' = "returned"
  /\ UNCHANGED <<futures, pool_i, pool_sources, pool_skipped,
                 manager_vars, ml_vars, calc_vars>>

\* Scenario 4: one refresh_user_metrics_async call and its pool
NextPool ==
  \/ \E n \in 1..MaxPoolRepos : PoolSubmit(n)
  \/ \E r \in 1..MaxPoolRepos, f \in FutureKinds : PoolTaskStart(r, f)
  \/ \E r \in 1..MaxPoolRepos, f \in FutureKinds : PoolTaskFinish(r, f)
  \/ PoolResultCommits
  \/ PoolTimeoutCommits
  \/ PoolResultPrs
  \/ PoolTimeoutPrs
  \/ PoolShutdown
  \/ PoolReturn

SpecPool == Init /\ [][NextPool]_vars

\* C12: a repository fetch that never completes does not stall the refresh:
\* until the refresh has returned there is always a step it can take
C12_HungFetchDoesNotStall ==
  (pool_pc # "returned" /\ \E x \in PoolRepos \X FutureKinds :
                              futures[x[1]][x[2]] = "hung")
    => ENABLED NextPool

(* ------------------------------------------ EnhancedMLAnalyzer (25 - 507) *)
\* at most this many analyzer calls
MaxMLCalls == 2

MIN_FORECAST_POINTS == 10
CONTINUOUS_LEARNING_THRESHOLD == 5
MAX_MODEL_AGE_DAYS == 30

\* the users whose history is passed in, and the metric names (refresh
\* manager 227 - 232) the models are trained for
Subjects == {"u1", "u2"}
MetricNames == {"lead_time", "deploy_freq"}

\* the lengths of the historical_data lists that are passed in
HistoryLengths ==
  {MIN_FORECAST_POINTS - 1, MIN_FORECAST_POINTS,
   MIN_FORECAST_POINTS + CONTINUOUS_LEARNING_THRESHOLD}

\* historical_data: the history of one subject, len entries with the
\* timestamps 1 .. len, of which the usable newest ones carry a metric value
Histories ==
  {d \in [subject : Subjects, len : HistoryLengths,
          usable : (MIN_FORECAST_POINTS - 2) ..
                   (MIN_FORECAST_POINTS + CONTINUOUS_LEARNING_THRESHOLD)] :
     d.usable \in {d.len - 1, d.len}}

\* datetime.now() - last_training_date in hours: a new model, a model of 30
\* days and 12 hours, a model of 31 days
ModelAges ==
  {0, MAX_MODEL_AGE_DAYS * 24 + 12, (MAX_MODEL_AGE_DAYS + 1) * 24}

\* timedelta.days: the whole days of a time difference
TimedeltaDays(hours) == hours \div 24

\* what the environment does during one call: how long ago the last full
\* training was, which trainer succeeds (or the fit raises), whether
\* partial_fit succeeds, and what happens to the pickle file
TrainEnvs ==
  [age_hours : ModelAges, trainer : {"arima", "sgd", "raises"},
   partial_ok : BOOLEAN, save : {"ok", "open_fails", "dump_fails"}]

PyNone == [kind |-> "None"]
DictGet(d, k, default) == IF k \in DOMAIN d THEN d[k] ELSE default
\* a pickle file that was truncated by open(path, 'wb') and never written
Corrupt == [kind |-> "corrupt"]

\* the analyzer object and its files, as one value
Analyzer ==
  [models |-> models, model_metadata |-> model_metadata, scalers |-> scalers,
   last_training_data |-> last_training_data, disk |-> disk]

\* 80 - 86: model_data
ModelData(S, k) ==
  [model |-> DictGet(S.models, k, PyNone),
   metadata |-> DictGet(S.model_metadata, k, EmptyDict),
   scaler |-> DictGet(S.scalers, k, PyNone),
   last_data |-> DictGet(S.last_training_data, k, EmptyDict)]

\* _save_model(metric_name) 77 - 94: every exception is logged and dropped
save_model(S, k, save) ==
  CASE save = "ok" -> [S EXCEPT !.disk = DictPut(@, k, ModelData(S, k))]
    [] save = "dump_fails" -> [S EXCEPT !.disk = DictPut(@, k, Corrupt)]
    [] OTHER -> S

\* _should_retrain_full_model(metric_name) 96 - 109
should_retrain_full_model(S, k, age_hours) ==
  IF k \notin DOMAIN S.model_metadata THEN TRUE
  ELSE IF "last_full_training" \notin DOMAIN S.model_metadata[k] THEN TRUE
  ELSE TimedeltaDays(age_hours) > MAX_MODEL_AGE_DAYS

\* _detect_new_data_points(historical_data, metric_name) 111 - 128: the number
\* of entries newer than the last training
detect_new_data_points(S, data, k) ==
  LET last_data == DictGet(S.last_training_data, k, EmptyDict) IN
  IF "last_timestamp" \notin DOMAIN last_data THEN data.len
  ELSE IF data.len > last_data.last_timestamp
       THEN data.len - last_data.last_timestamp ELSE 0

\* _train_full_model(historical_data, metric_name) 248 - 334
train_full_model(S, data, k, env) ==
  IF data.usable < MIN_FORECAST_POINTS
  THEN [state |-> S, ret |-> FALSE, did |-> "none", save |-> "none"]
  ELSE
    LET S1 == [S EXCEPT
                 !.model_metadata = DictPut(@, k,
                    [last_full_training |-> TRUE,
                     training_data_points |-> data.usable,
                     model_version |-> 1,
                     total_incremental_updates |-> 0]),
                 !.scalers = DictPut(@, k,
                    [fitted_on |-> data.subject, points |-> data.usable])]
        S2 == [S1 EXCEPT
                 !.models = DictPut(@, k,
                    [type |-> IF env.trainer = "arima"
                              THEN "arima" ELSE "sgd_continuous",
                     supports_incremental |-> env.trainer # "arima",
                     subjects |-> {data.subject},
                     points |-> data.usable]),
                 !.last_training_data = DictPut(@, k,
                    [last_timestamp |-> data.len, data_points |-> data.len])]
    IN IF env.trainer = "raises"
       THEN [state |-> S1, ret |-> FALSE, did |-> "none", save |-> "none"]
       ELSE [state |-> save_model(S2, k, env.save), ret |-> TRUE,
             did |-> "full", save |-> env.save]

\* _update_model_incrementally(new_data, all_data, metric_name) 336 - 413
update_model_incrementally(S, new_count, data, k, env) ==
  LET y_new == new_count - (data.len - data.usable) IN
  IF k \notin DOMAIN S.models \/ ~S.models[k].supports_incremental
  THEN train_full_model(S, data, k, env)
  ELSE IF y_new <= 0
  THEN [state |-> S, ret |-> TRUE, did |-> "none", save |-> "none"]
  ELSE IF ~env.partial_ok \/ k \notin DOMAIN S.model_metadata
  THEN train_full_model(S, data, k, env)
  ELSE
    LET S1 == [S EXCEPT
                 !.models[k].subjects = @ \cup {data.subject},
                 !.models[k].points = @ + y_new,
                 !.model_metadata[k].total_incremental_updates = @ + 1,
                 !.model_metadata[k].training_data_points = @ + y_new,
                 !.last_training_data = DictPut(@, k,
                    [last_timestamp |-> data.len, data_points |-> data.len])]
    IN [state |-> save_model(S1, k, env.save), ret |-> TRUE,
        did |-> "incremental", save |-> env.save]

\* no history is ever too short
NeverInsufficient(len) == FALSE

\* 222: len(historical_data) < self.MIN_FORECAST_POINTS
InsufficientData(len) == len < MIN_FORECAST_POINTS

\* train_forecasting_model(historical_data, metric_name) 218 - 246
train_forecasting_model(S, data, k, env) ==
  IF InsufficientData(data.len)
  THEN [state |-> S, ret |-> FALSE, did |-> "none", save |-> "none"]
  ELSE
    LET new_count == detect_new_data_points(S, data, k)
        has_new_data == new_count >= CONTINUOUS_LEARNING_THRESHOLD
        should_full_retrain == should_retrain_full_model(S, k, env.age_hours)
        has_existing_model == k \in DOMAIN S.models
    IN IF should_full_retrain \/ ~has_existing_model
       THEN train_full_model(S, data, k, env)
       ELSE IF has_new_data
       THEN update_model_incrementally(S, new_count, data, k, env)
       ELSE [state |-> S, ret |-> TRUE, did |-> "none", save |-> "none"]

\* the analyzer is left in state S
Becomes(S) ==
  /\ models' = S.models
  /\ model_metadata' = S.model_metadata
  /\ scalers' = S.scalers
  /\ last_training_data' = S.last_training_data
  /\ disk' = S.disk

\* refresh manager 242 - 244: train_forecasting_model(historical_data, path)
\* with the history of the user whose refresh is running
Train(data, k, env) ==
  /\ ml_call.seq < MaxMLCalls
  /\ LET r == train_forecasting_model(Analyzer, data, k, env) IN
       /\ Becomes(r.state)
       /\ ml_call' = [seq |-> ml_call.seq + 1, op |-> "train",
                      subject |-> data.subject, metric |-> k,
                      len |-> data.len, ret |-> r.ret, did |-> r.did,
                      save |-> r.save, forecast_from |-> {}, unreadable |-> {},
                      age_hours |-> env.age_hours]
  /\ UNCHANGED <<manager_vars, pool_vars, calc_vars>>

\* predict_metric(metric_name, periods) 415 - 501, called during the refresh
\* of subject s (refresh manager 248): the forecast comes from the model
\* stored under metric_name
Predict(s, k) ==
  /\ ml_call.seq < MaxMLCalls
  /\ ml_call' = [seq |-> ml_call.seq + 1, op |-> "predict", subject |-> s,
                 metric |-> k, len |-> 0, ret |-> k \in DOMAIN models,
                 did |-> "none", save |-> "none",
                 forecast_from |-> IF k \in DOMAIN models
                                   THEN models[k].subjects ELSE {},
                 unreadable |-> {}, age_hours |-> 0]
  /\ UNCHANGED <<models, model_metadata, scalers, last_training_data, disk,
                 manager_vars, pool_vars, calc_vars>>

\* one failing file makes the whole load stop with nothing loaded
load_nothing_on_failure(files, unreadable) ==
  IF \E k \in DOMAIN files : k \in unreadable \/ files[k] = Corrupt
  THEN {} ELSE DOMAIN files

\* _load_existing_models() 55 - 75: the names of the files that are loaded;
\* pickle.load of the others raises and the loop goes on (72 - 73)
load_existing_models(files, unreadable) ==
  {k \in DOMAIN files : k \notin unreadable /\ files[k] # Corrupt}

\* __init__ 39 - 53: the process restarts and a new analyzer loads the files
Restart(unreadable) ==
  /\ ml_call.op # "load"
  /\ LET loaded == load_existing_models(disk, unreadable) IN
       /\ models' = [k \in loaded |-> disk[k].model]
       /\ model_metadata' = [k \in loaded |-> disk[k].metadata]
       /\ scalers' = [k \in loaded |-> disk[k].scaler]
       /\ last_training_data' = [k \in loaded |-> disk[k].last_data]
  /\ ml_call' = [seq |-> ml_call.seq, op |-> "load", subject |-> "",
                 metric |-> "", len |-> 0, ret |-> TRUE, did |-> "none",
                 save |-> "none", forecast_from |-> {},
                 unreadable |-> unreadable, age_hours |-> 0]
  /\ UNCHANGED <<disk, manager_vars, pool_vars, calc_vars>>

\* Scenario 5: the forecasting engine of one process, used by the refreshes of
\* several users
NextML ==
  \/ \E data \in Histories, k \in MetricNames, env \in TrainEnvs :
       Train(data, k, env)
  \/ \E s \in Subjects, k \in MetricNames : Predict(s, k)
  \/ \E unreadable \in SUBSET MetricNames : Restart(unreadable)

SpecML == Init /\ [][NextML]_vars

\* the step is an analyzer call of kind op
MLStep(op) == ml_call'.op = op /\ ml_call' # ml_call

\* what the analyzer holds in memory and on disk for metric name k
InMemory(S, k) ==
  <<DictGet(S.models, k, PyNone), DictGet(S.model_metadata, k, PyNone),
    DictGet(S.scalers, k, PyNone)>>
OnDisk(S, k) == DictGet(S.disk, k, PyNone)
AnalyzerAfter ==
  [models |-> models', model_metadata |-> model_metadata',
   scalers |-> scalers', last_training_data |-> last_training_data',
   disk |-> disk']

\* C13: training, updating or predicting for one subject never changes or
\* reads the model, scaler or metadata fitted on another subject's data under
\* the same metric path
C13_SubjectsIsolated ==
  [][/\ MLStep("train") =>
          \A k \in DOMAIN models :
            models[k].subjects # {ml_call'.subject}
              => InMemory(AnalyzerAfter, k) = InMemory(Analyzer, k)
     /\ MLStep("predict") => ml_call'.forecast_from \subseteq {ml_call'.subject}
    ]_vars

\* C14: train_forecasting_model with fewer points than the floor returns the
\* failure value and leaves model, scaler, metadata and the persisted blob of
\* every key as they were
C14_TooFewPointsChangesNothing ==
  [][(MLStep("train") /\ ml_call'.len < MIN_FORECAST_POINTS)
       => /\ ml_call'.ret = FALSE
          /\ UNCHANGED <<models, scalers, model_metadata, disk>>]_vars

\* an existing, persisted model was asked to train on too few points
C14_Witness ==
  /\ ml_call.op = "train" /\ ml_call.len < MIN_FORECAST_POINTS
  /\ ~ml_call.ret
  /\ ml_call.metric \in DOMAIN models
  /\ ml_call.metric \in DOMAIN disk

\* C15: a full retraining of an existing model increments its model_version;
\* an incremental update or a call that trains nothing leaves it unchanged
C15_FullRetrainIncrementsVersion ==
  [][\A k \in DOMAIN models :
       (MLStep("train") /\ ml_call'.metric = k /\ k \in DOMAIN model_metadata)
         => model_metadata'[k].model_version =
              IF ml_call'.did = "full"
              THEN model_metadata[k].model_version + 1
              ELSE model_metadata[k].model_version]_vars

\* C16: when train_forecasting_model returns success after a full training or
\* an incremental update, the persisted blob holds the resulting model, scaler
\* and metadata
C16_SuccessMeansPersisted ==
  (ml_call.op = "train" /\ ml_call.ret /\ ml_call.did \in {"full", "incremental"})
    => /\ ml_call.metric \in DOMAIN disk
       /\ disk[ml_call.metric] = ModelData(Analyzer, ml_call.metric)

\* C17: a failed save of one key leaves every other key as it was in memory
\* and on disk, and the failing key trained in memory; on start every saved
\* model whose file can be read is loaded, whatever happens to the other files
C17_FailuresStayWithTheirKey ==
  [][/\ (MLStep("train") /\ ml_call'.save \in {"open_fails", "dump_fails"})
          => /\ \A j \in MetricNames \ {ml_call'.metric} :
                  /\ InMemory(AnalyzerAfter, j) = InMemory(Analyzer, j)
                  /\ OnDisk(AnalyzerAfter, j) = OnDisk(Analyzer, j)
             /\ ml_call'.ret
             /\ ml_call'.metric \in DOMAIN models'
     /\ MLStep("load")
          => \A k \in DOMAIN disk :
               (k \notin ml_call'.unreadable /\ disk[k] # Corrupt)
                 => /\ k \in DOMAIN models'
                    /\ InMemory(AnalyzerAfter, k) =
                         <<disk[k].model, disk[k].metadata, disk[k].scaler>>
    ]_vars

\* a start on which one file could not be loaded and another one was
C17_Witness ==
  /\ ml_call.op = "load"
  /\ \E k \in DOMAIN disk : k \in ml_call.unreadable \/ disk[k] = Corrupt
  /\ \E j \in DOMAIN disk : j \in DOMAIN models

(* ------------------------------- EnhancedMetricsCalculator (10 - 805) *)
\* the longest list over all pull-request records, the longest commit list,
\* and the sizes of the lists that hold many well-formed records
MaxPRs == 2
MaxCommits == 1
MaxFailures == 2
MaxUnmerged == 2
ManyMerged == 10

\* mergedAt of a pull request: null, two well-formed timestamps of an earlier
\* week (t1 before t2), or a string that no format of _parse_date matches
MergedAts == {"None", "t1", "t2", "bad"}
\* title of a pull request: null, or a string, given by the keywords it holds
Titles == {"None", "feature", "hotfix: x", "fix x", "Revert fix x"}
\* body of a pull request: empty, or a text with a keyword
Bodies == {"", "Urgent!"}
PRKinds == [mergedAt : MergedAts, title : Titles, body : Bodies]

\* 299 - 300, 306: the keywords that are substrings of text.lower()
WordsIn(text) ==
  CASE text = "hotfix: x" -> {"hotfix", "fix"}
    [] text = "fix x" -> {"fix"}
    [] text = "Revert fix x" -> {"revert", "fix"}
    [] text = "Urgent!" -> {"urgent"}
    [] OTHER -> {}

RECURSIVE Repeat(_, _)
Repeat(x, n) == IF n = 0 THEN << >> ELSE <<x>> \o Repeat(x, n - 1)

\* the pull-request lists that are passed in: every short list, and the long
\* lists of merged failures, merged features and unmerged pull requests
ShortLists == UNION {[1..n -> PRKinds] : n \in 0..MaxPRs}
LongLists ==
  {Repeat([mergedAt |-> "t1", title |-> "hotfix: x", body |-> ""], h)
     \o Repeat([mergedAt |-> "t2", title |-> "feature", body |-> ""], ManyMerged)
     \o Repeat([mergedAt |-> "None", title |-> "feature", body |-> ""], u) :
   h \in 0..MaxFailures, u \in 0..MaxUnmerged}
PRLists == ShortLists \cup LongLists

\* round(num / den, digits) of Python, on the integer num / den scaled by
\* 10 ^ digits: to the nearest, ties to even
PyRound(num, den) ==
  LET q == num \div den
      r == num % den
  IN IF 2 * r > den THEN q + 1
     ELSE IF 2 * r < den THEN q
     ELSE IF q % 2 = 0 THEN q ELSE q + 1

\* _parse_date(date_str) 91 - 124, in hours; a string that matches no format
\* becomes datetime.now() (124), which is later than every timestamp of the
\* data and lies in another week
HoursOfNow == 1000

parse_date(ts) ==
  CASE ts = "t1" -> 0
    [] ts = "t2" -> 2
    [] ts = "t3" -> 5
    [] OTHER -> HoursOfNow

\* merge_date.strftime("%Y-W%U") 239
\* the week keys in their sorted order, which is the order of time, and a
\* merge timestamp of each of the weeks before the current one
AllWeeks == <<"W01", "W02", "W03", "W04", "W05", "W06", "W07", "W08", "W09",
              "W10", "Wnow">>
StampOfWeek == <<"t1", "m02", "m03", "m04", "m05", "m06", "m07", "m08", "m09",
                 "m10">>
WeekKey(ts) ==
  IF ts = "t2" THEN "W01"
  ELSE IF \E i \in DOMAIN StampOfWeek : StampOfWeek[i] = ts
  THEN AllWeeks[CHOOSE i \in DOMAIN StampOfWeek : StampOfWeek[i] = ts]
  ELSE "Wnow"
\* the position of a week key in sorted(weekly_deployments.keys()) 250
WeekRank(w) == CHOOSE i \in DOMAIN AllWeeks : AllWeeks[i] = w

IsMerged(pr) == pr.mergedAt # "None"
Merged(prs) == SelectSeq(prs, IsMerged)
Range(s) == {s[i] : i \in DOMAIN s}
\* the number of the records of a list that are in the set S
Count(s, S) == Cardinality({i \in DOMAIN s : s[i] \in S})
\* the number of the merged pull requests whose week is in the set W
MergedIn(prs, W) ==
  Cardinality({i \in DOMAIN prs :
                 IsMerged(prs[i]) /\ WeekKey(prs[i].mergedAt) \in W})

\* the weeks in front of a threshold of the comparison count as a change
InclusiveTrend(recent_sum, previous_sum) ==
  IF recent_sum * 10 >= previous_sum * 12 THEN "increasing"
  ELSE IF recent_sum * 10 <= previous_sum * 8 THEN "decreasing"
  ELSE "stable"

\* 259 - 265, with recent_avg = recent_sum / 4 and previous_avg =
\* previous_sum / 4: recent_avg > previous_avg * 1.2 is recent_sum * 10 >
\* previous_sum * 12 (the float product previous_avg * 1.2 is the exact value
\* whenever that is a multiple of 1/4, and otherwise differs from recent_avg
\* by 1/40 or more), and so for 0.8
TrendDirection(recent_sum, previous_sum) ==
  IF recent_sum * 10 > previous_sum * 12 THEN "increasing"
  ELSE IF recent_sum * 10 < previous_sum * 8 THEN "decreasing"
  ELSE "stable"

\* 254: len(sorted_weeks) >= 8
TREND_WEEKS == 8

\* _calculate_deployment_frequency(pull_requests) 223 - 274 (per_week in
\* hundredths)
calculate_deployment_frequency(prs) ==
  IF prs = << >>
  THEN [per_week |-> 0, weekly_trend |-> EmptyDict, total_deployments |-> 0]
  ELSE
    LET weeks == {WeekKey(pr.mergedAt) : pr \in Range(Merged(prs))}
        weekly_deployments == [w \in weeks |-> MergedIn(prs, {w})]
        \* the number of weeks after w in sorted_weeks
        After(w) == Cardinality({v \in weeks : WeekRank(v) > WeekRank(w)})
        recent_weeks == {w \in weeks : After(w) < 4}
        previous_weeks == {w \in weeks : After(w) >= 4 /\ After(w) < 8}
    IN [per_week |-> IF weeks = {} THEN 0
                     ELSE PyRound(Len(Merged(prs)) * 100, Cardinality(weeks)),
        weekly_trend |-> weekly_deployments,
        trend_direction |->
          IF Cardinality(weeks) >= TREND_WEEKS
          THEN TrendDirection(MergedIn(prs, recent_weeks),
                              MergedIn(prs, previous_weeks))
          ELSE "stable",
        total_deployments |-> Len(Merged(prs))]

\* 284 - 289: failure_indicators, in the order of the dict
failure_indicators ==
  <<[type |-> "revert", keywords |-> {"revert", "rollback", "undo"}],
    [type |-> "hotfix",
     keywords |-> {"hotfix", "emergency", "urgent", "critical"}],
    [type |-> "bugfix",
     keywords |-> {"fix", "bug", "issue", "broken", "error"}],
    [type |-> "patch", keywords |-> {"patch", "quick fix", "band-aid"}]>>

\* 306: any(keyword in title or keyword in body for keyword in keywords)
Hits(title, body) ==
  {i \in DOMAIN failure_indicators :
     failure_indicators[i].keywords \cap (WordsIn(title) \cup WordsIn(body)) # {}}

\* the loop without its break: the last matching failure type is kept
LastFailureType(title, body) ==
  IF Hits(title, body) = {} THEN "none"
  ELSE failure_indicators[CHOOSE i \in Hits(title, body) :
                            \A j \in Hits(title, body) : i >= j].type

\* 305 - 311: the first failure type one of whose keywords is in the title
\* or the body (break at 311)
FailureType(title, body) ==
  IF Hits(title, body) = {} THEN "none"
  ELSE failure_indicators[CHOOSE i \in Hits(title, body) :
                            \A j \in Hits(title, body) : i <= j].type

IsFailure(pr) == IsMerged(pr) /\ FailureType(pr.title, pr.body) # "none"
Failures == {pr \in PRKinds : IsFailure(pr)}
FailuresOf(t) == {pr \in Failures : FailureType(pr.title, pr.body) = t}

\* 329: the denominator of the failure rate, len(pull_requests)
Denominator(prs) == Len(prs)

\* _calculate_enhanced_failure_rate(pull_requests, commits) 276 - 338
\* (percentage in hundredths); None.lower() at 299 raises AttributeError
calculate_enhanced_failure_rate(prs) ==
  IF prs = << >>
  THEN [percentage |-> 0, failure_types |-> EmptyDict, hotfix_count |-> 0,
        total_failures |-> 0, total_prs |-> 0]
  ELSE IF \E pr \in Range(Merged(prs)) : pr.title = "None"
  THEN Raised("AttributeError")
  ELSE
    LET types == {FailureType(pr.title, pr.body) :
                    pr \in Range(Merged(prs))} \ {"none"}
        total_failures == Count(prs, Failures)
    IN [percentage |-> PyRound(total_failures * 10000, Denominator(prs)),
        failure_types |->
          [t \in types |-> Count(prs, FailuresOf(t))],
        hotfix_count |-> 0,
        total_failures |-> total_failures,
        total_prs |-> Len(prs)]

\* 345 - 348: sorted by _parse_date(mergedAt); the sort is stable
RECURSIVE SortedByMerge(_)
SortedByMerge(prs) ==
  IF prs = << >> THEN << >>
  ELSE LET least == CHOOSE i \in DOMAIN prs :
                      \A j \in DOMAIN prs :
                        \/ parse_date(prs[i].mergedAt) < parse_date(prs[j].mergedAt)
                        \/ /\ parse_date(prs[i].mergedAt) = parse_date(prs[j].mergedAt)
                           /\ i <= j
       IN <<prs[least]>> \o
          SortedByMerge([k \in 1..(Len(prs) - 1) |->
                           IF k < least THEN prs[k] ELSE prs[k + 1]])

\* 350: failure_keywords
failure_keywords == {"bug", "fix", "issue", "broken", "error", "hotfix"}

\* 362 - 364: fix_time is read before failure_time; a timestamp that does not
\* parse is datetime.now() at the moment it is read, so as failure_time it is
\* not earlier than fix_time
RecoveryHours(fix, prev) ==
  IF prev.mergedAt = "bad" THEN 0
  ELSE parse_date(fix.mergedAt) - parse_date(prev.mergedAt)

RECURSIVE SumSeq(_)
SumSeq(s) == IF s = << >> THEN 0 ELSE Head(s) + SumSeq(Tail(s))

\* _calculate_mttr(pull_requests, commits) 340 - 377: the recovery times, kept
\* as their sum in hours and their number
calculate_mttr(prs) ==
  IF \E pr \in Range(Merged(prs)) : pr.title = "None"
  THEN Raised("AttributeError")
  ELSE
    LET sorted_prs == SortedByMerge(Merged(prs))
        recovery_times ==
          SelectSeq([i \in DOMAIN sorted_prs |->
                       IF /\ WordsIn(sorted_prs[i].title) \cap failure_keywords # {}
                          /\ i > 1
                       THEN RecoveryHours(sorted_prs[i], sorted_prs[i - 1])
                       ELSE 0],
                    LAMBDA h : h > 0)
    IN [mttr_hours_sum |-> SumSeq(recovery_times),
        recovery_incidents |-> Len(recovery_times)]

\* _calculate_detailed_lead_time(pull_requests) 147 - 221: the pull requests
\* carry no commit nodes, so no lead time is measured (162 - 183)
\* min(...) and max(...) of a non-empty set of parsed dates
MinDate(S) == CHOOSE x \in {parse_date(s) : s \in S} :
                \A y \in {parse_date(s) : s \in S} : x <= y
MaxDate(S) == CHOOSE x \in {parse_date(s) : s \in S} :
                \A y \in {parse_date(s) : s \in S} : x >= y

\* a duration is appended to its list when it is not negative (176, 181,
\* 196, 202)
Sample(d) == IF d >= 0 THEN <<d>> ELSE << >>

NoSamples == [lead |-> << >>, code |-> << >>, review |-> << >>, merge |-> << >>]

\* 155 - 207, the body of the loop for one pull request: what it appends to
\* lead_times, code_times, review_times and merge_times (in hours). commits
\* and reviews are the sets of the committedDate / submittedAt values that
\* are present; pr["createdAt"] of a record without the field raises KeyError,
\* which 205 catches
LeadTimeSamples(pr) ==
  IF ~IsMerged(pr) \/ "createdAt" \notin DOMAIN pr
       \/ DictGet(pr, "commits", {}) = {}
  THEN NoSamples
  ELSE
    LET created_at == parse_date(pr.createdAt)
        merged_at == parse_date(pr.mergedAt)
        first_commit == MinDate(pr.commits)
        reviews == DictGet(pr, "reviews", {})
    IN [lead |-> Sample(merged_at - first_commit),
        code |-> Sample(created_at - first_commit),
        review |-> IF reviews = {} THEN << >>
                   ELSE Sample(MinDate(reviews) - created_at),
        merge |-> IF reviews = {} THEN << >>
                  ELSE Sample(merged_at - MaxDate(reviews))]

RECURSIVE SamplesOf(_, _)
SamplesOf(prs, list) ==
  IF prs = << >> THEN << >>
  ELSE LeadTimeSamples(Head(prs))[list] \o SamplesOf(Tail(prs), list)

\* _average(values) 794 - 796, in whole hours: exact for the lists of no
\* sample and of one sample that are computed here
Average(values) == IF values = << >> THEN 0 ELSE SumSeq(values) \div Len(values)

\* _calculate_detailed_lead_time(pull_requests) 147 - 221
calculate_detailed_lead_time(prs) ==
  [total_lead_time_hours |-> Average(SamplesOf(prs, "lead")),
   lead_time_samples |-> Len(SamplesOf(prs, "lead")),
   code_time_hours |-> Average(SamplesOf(prs, "code")),
   review_time_hours |-> Average(SamplesOf(prs, "review")),
   merge_time_hours |-> Average(SamplesOf(prs, "merge"))]

\* calculate_code_quality_metrics(commits, pull_requests) 379 - 422: records
\* without additions, deletions, changedFiles and reviews
calculate_code_quality_metrics(commits, prs) ==
  [avg_commit_size |-> 0, avg_pr_size |-> 0, large_commits_percentage |-> 0,
   large_prs_percentage |-> 0, review_coverage_percentage |-> 0,
   avg_files_per_commit |-> 0]

\* calculate_productivity_patterns(commits) 424 - 479: the commits are made on
\* one weekday, in the daytime
calculate_productivity_patterns(commits) ==
  IF commits = 0 THEN EmptyDict
  ELSE [x \in {"weekend_work_percentage", "late_night_work_percentage",
               "max_commit_streak", "work_life_balance_score"} |->
          CASE x = "max_commit_streak" -> 1
            [] x = "work_life_balance_score" -> 100
            [] OTHER -> 0]

\* calculate_collaboration_metrics(pull_requests) 481 - 526: no reviews and no
\* authors in the records
calculate_collaboration_metrics(prs) ==
  IF prs = << >> THEN EmptyDict
  ELSE [x \in {"unique_reviewers", "unique_authors",
               "avg_review_response_time_hours", "total_reviews",
               "reviews_per_pr", "collaboration_index"} |-> 0]

\* 14 - 34: self.benchmarks (failure rate and deployments in hundredths)
benchmarks ==
  [elite |-> [lead_time_hours |-> 24, deployment_frequency_per_week |-> 1000,
              change_failure_rate |-> 500, mttr_hours |-> 1],
   high |-> [lead_time_hours |-> 168, deployment_frequency_per_week |-> 300,
             change_failure_rate |-> 1000, mttr_hours |-> 24],
   medium |-> [lead_time_hours |-> 720, deployment_frequency_per_week |-> 100,
               change_failure_rate |-> 1500, mttr_hours |-> 168]]

\* 539 - 549 and alike: the points for a value that should be low
AtMost(v, scale, key) ==
  IF v <= benchmarks.elite[key] * scale THEN 10
  ELSE IF v <= benchmarks.high[key] * scale THEN 8
  ELSE IF v <= benchmarks.medium[key] * scale THEN 6
  ELSE 3

\* 553 - 564: the points for a value that should be high
AtLeast(v, key) ==
  IF v >= benchmarks.elite[key] THEN 10
  ELSE IF v >= benchmarks.high[key] THEN 8
  ELSE IF v >= benchmarks.medium[key] THEN 6
  ELSE 3

\* 700 - 727
Grade(tenths) ==
  IF tenths >= 900 THEN "A+" ELSE IF tenths >= 850 THEN "A"
  ELSE IF tenths >= 800 THEN "A-" ELSE IF tenths >= 750 THEN "B+"
  ELSE IF tenths >= 700 THEN "B" ELSE IF tenths >= 650 THEN "B-"
  ELSE IF tenths >= 600 THEN "C+" ELSE IF tenths >= 550 THEN "C"
  ELSE "C-"

\* get_performance_grade(metrics) 528 - 740 (percentage in tenths); the
\* average recovery time is compared through its sum and its number
get_performance_grade(metrics) ==
  LET mttr == metrics.dora.mttr
      incidents == IF mttr.recovery_incidents = 0 THEN 1
                   ELSE mttr.recovery_incidents
      dora_score ==
        AtMost(metrics.dora.lead_time.total_lead_time_hours, 1,
               "lead_time_hours")
        + AtLeast(metrics.dora.deployment_frequency.per_week,
                  "deployment_frequency_per_week")
        + AtMost(metrics.dora.change_failure_rate.percentage, 1,
                 "change_failure_rate")
        + AtMost(mttr.mttr_hours_sum, incidents, "mttr_hours")
      review_coverage == metrics.code_quality.review_coverage_percentage
      large_prs_pct == metrics.code_quality.large_prs_percentage
      avg_files_per_commit == metrics.code_quality.avg_files_per_commit
      quality_score ==
        (IF review_coverage >= 90 THEN 10
         ELSE IF review_coverage >= 70 THEN 8 ELSE 5)
        + (IF large_prs_pct <= 10 THEN 8
           ELSE IF large_prs_pct <= 25 THEN 6 ELSE 3)
        + (IF avg_files_per_commit <= 5 THEN 7 ELSE 4)
      work_life_balance ==
        DictGet(metrics.productivity_patterns, "work_life_balance_score", 0)
      commit_streak ==
        DictGet(metrics.productivity_patterns, "max_commit_streak", 0)
      productivity_score ==
        (IF work_life_balance >= 80 THEN 10
         ELSE IF work_life_balance >= 60 THEN 8 ELSE 5)
        + (IF commit_streak >= 7 THEN 10
           ELSE IF commit_streak >= 3 THEN 7 ELSE 4)
      unique_reviewers == DictGet(metrics.collaboration, "unique_reviewers", 0)
      review_response_time ==
        DictGet(metrics.collaboration, "avg_review_response_time_hours", 0)
      collaboration_score ==
        (IF unique_reviewers >= 5 THEN 8
         ELSE IF unique_reviewers >= 2 THEN 6 ELSE 3)
        + (IF review_response_time <= 24 THEN 7
           ELSE IF review_response_time <= 72 THEN 5 ELSE 2)
      total_score ==
        dora_score + quality_score + productivity_score + collaboration_score
      total_max == 40 + 25 + 20 + 15
      percentage == PyRound(total_score * 1000, total_max)
  IN [overall_grade |-> Grade(percentage),
      percentage |-> percentage,
      total_score |-> total_score,
      max_score |-> total_max,
      category_scores |->
        [dora |-> dora_score, code_quality |-> quality_score,
         productivity |-> productivity_score,
         collaboration |-> collaboration_score],
      category_max_scores |->
        [dora |-> 40, code_quality |-> 25, productivity |-> 20,
         collaboration |-> 15]]

\* calculate_all_metrics(commits, pull_requests, scope) 36 - 74; commits is the
\* number of (well-formed) commits
calculate_all_metrics(commits, prs) ==
  LET failure_rate == calculate_enhanced_failure_rate(prs)
      mttr == calculate_mttr(prs)
  IN IF "raised" \in DOMAIN failure_rate THEN failure_rate
     ELSE IF "raised" \in DOMAIN mttr THEN mttr
     ELSE
       LET metrics ==
             [dora |->
                [lead_time |-> calculate_detailed_lead_time(prs),
                 deployment_frequency |-> calculate_deployment_frequency(prs),
                 change_failure_rate |-> failure_rate,
                 mttr |-> mttr],
              code_quality |-> calculate_code_quality_metrics(commits, prs),
              productivity_patterns |->
                calculate_productivity_patterns(commits),
              collaboration |-> calculate_collaboration_metrics(prs)]
       IN [total_commits |-> commits,
           total_prs |-> Len(prs),
           dora |-> metrics.dora,
           code_quality |-> metrics.code_quality,
           productivity_patterns |-> metrics.productivity_patterns,
           collaboration |-> metrics.collaboration,
           performance_grade |-> get_performance_grade(metrics),
           lead_time_hours |-> metrics.dora.lead_time.total_lead_time_hours,
           deployment_frequency |-> metrics.dora.deployment_frequency.per_week,
           change_failure_rate |-> failure_rate.percentage,
           review_coverage_percentage |->
             metrics.code_quality.review_coverage_percentage,
           work_life_balance_score |->
             DictGet(metrics.productivity_patterns,
                     "work_life_balance_score", 0),
           weekly_commit_frequency |->
             IF commits = 0 THEN EmptyDict ELSE [w \in {"W01"} |-> commits],
           deployment_frequency_by_week |->
             metrics.dora.deployment_frequency.weekly_trend]

\* a caller computes the metrics of the lists it fetched
Calculate(commits, prs) ==
  /\ ~calc_in.called
  /\ calc_in' = [commits |-> commits, pull_requests |-> prs, called |-> TRUE]
  /\ calc_out' = calculate_all_metrics(commits, prs)
  /\ UNCHANGED <<manager_vars, pool_vars, ml_vars>>

\* Scenario 6: the calculator applied to the lists of PRLists
NextCalc ==
  \E commits \in 0..MaxCommits, prs \in PRLists : Calculate(commits, prs)

SpecCalc == Init /\ [][NextCalc]_vars

CalcReturned == calc_in.called /\ "raised" \notin DOMAIN calc_out
Values(f) == {f[x] : x \in DOMAIN f}

\* every number in a snapshot
NumericFields(m) ==
  {m.total_commits, m.total_prs, m.lead_time_hours, m.deployment_frequency,
   m.change_failure_rate, m.review_coverage_percentage,
   m.work_life_balance_score}
  \cup Values(m.dora.lead_time)
  \cup {m.dora.deployment_frequency.per_week,
        m.dora.deployment_frequency.total_deployments}
  \cup Values(m.dora.deployment_frequency.weekly_trend)
  \cup {m.dora.change_failure_rate.percentage,
        m.dora.change_failure_rate.hotfix_count,
        m.dora.change_failure_rate.total_failures,
        m.dora.change_failure_rate.total_prs}
  \cup Values(m.dora.change_failure_rate.failure_types)
  \cup Values(m.dora.mttr)
  \cup Values(m.code_quality)
  \cup Values(m.productivity_patterns)
  \cup Values(m.collaboration)
  \cup Values(m.weekly_commit_frequency)
  \cup Values(m.deployment_frequency_by_week)
  \cup {m.performance_grade.percentage, m.performance_grade.total_score,
        m.performance_grade.max_score}
  \cup Values(m.performance_grade.category_scores)
  \cup Values(m.performance_grade.category_max_scores)

\* C18: calculate_all_metrics on empty commit and pull-request lists returns
\* a snapshot all of whose numeric fields are 0, those of the performance
\* grade included
C18_EmptyInputAllZero ==
  (calc_in.called /\ calc_in.commits = 0 /\ calc_in.pull_requests = << >>)
    => /\ "raised" \notin DOMAIN calc_out
       /\ NumericFields(calc_out) \subseteq {0}

\* a record with a timestamp that does not parse or with a null field
Malformed(pr) == pr.mergedAt = "bad" \/ pr.title = "None"
WellFormedOnly(prs) == SelectSeq(prs, LAMBDA pr : ~Malformed(pr))

\* C19: calculate_all_metrics never raises for malformed input, and a
\* malformed record adds to no bucket, count or duration: these are what the
\* well-formed records alone give
C19_MalformedRecordsSkipped ==
  calc_in.called
    => /\ "raised" \notin DOMAIN calc_out
       /\ LET rest == calculate_all_metrics(calc_in.commits,
                        WellFormedOnly(calc_in.pull_requests)).dora
          IN /\ calc_out.dora.deployment_frequency.weekly_trend =
                  rest.deployment_frequency.weekly_trend
             /\ calc_out.dora.change_failure_rate.failure_types =
                  rest.change_failure_rate.failure_types
             /\ calc_out.dora.mttr = rest.mttr

\* C20: the failure percentage is the number of merged pull requests
\* classified as failures over the number of merged pull requests, times 100,
\* also when the list holds unmerged pull requests; 2 "hotfix: ..." among 12
\* merged give 16.67 and {hotfix: 2}
C20_RateOverMergedPRs ==
  LET prs == calc_in.pull_requests
      cfr == calc_out.dora.change_failure_rate
  IN (CalcReturned /\ Len(Merged(prs)) > 0)
       => /\ cfr.percentage =
               PyRound(Count(prs, Failures) * 10000, Len(Merged(prs)))
          /\ (/\ Len(Merged(prs)) = 12
              /\ Count(prs, FailuresOf("hotfix")) = 2
              /\ Count(prs, Failures) = 2)
               => /\ cfr.percentage = 1667
                  /\ cfr.failure_types = [t \in {"hotfix"} |-> 2]

\* the categories in their priority order, and the merged pull requests
\* that hold a keyword of category c and of no category before it
Categories == <<"revert", "hotfix", "bugfix", "patch">>
Matches(pr, i) ==
  failure_indicators[i].keywords \cap (WordsIn(pr.title) \cup WordsIn(pr.body)) # {}
FirstMatch(c) ==
  {pr \in PRKinds :
     /\ IsMerged(pr)
     /\ \E i \in DOMAIN Categories :
          /\ Categories[i] = c /\ failure_indicators[i].type = c
          /\ Matches(pr, i)
          /\ \A j \in 1..(i - 1) : ~Matches(pr, j)}

\* C21: every merged pull request is counted in at most one category, the
\* first of revert, hotfix, bugfix, patch one of whose keywords is in its title
\* or body: the category counts are those of the first matches, they sum to
\* the total failure count, a pull request with hotfix and bugfix keywords is
\* counted under hotfix only, and computing again gives the same result
C21_FirstCategoryOnly ==
  LET prs == calc_in.pull_requests
      cfr == calc_out.dora.change_failure_rate
  IN CalcReturned
       => /\ \A i \in DOMAIN Categories :
               DictGet(cfr.failure_types, Categories[i], 0) =
                 Count(prs, FirstMatch(Categories[i]))
          /\ DOMAIN cfr.failure_types \subseteq Range(Categories)
          /\ DictGet(cfr.failure_types, "revert", 0)
               + DictGet(cfr.failure_types, "hotfix", 0)
               + DictGet(cfr.failure_types, "bugfix", 0)
               + DictGet(cfr.failure_types, "patch", 0)
               = cfr.total_failures
          /\ DictGet(cfr.failure_types, "bugfix", 0) =
               Count(prs, {pr \in PRKinds :
                             /\ IsMerged(pr) /\ Matches(pr, 3)
                             /\ ~Matches(pr, 1) /\ ~Matches(pr, 2)})
          /\ calc_out = calculate_all_metrics(calc_in.commits, prs)

\* a merged pull request with hotfix and bugfix keywords, and one with a
\* bugfix keyword only, were classified
C21_Witness ==
  /\ CalcReturned
  /\ \E i, j \in DOMAIN calc_in.pull_requests :
       LET a == calc_in.pull_requests[i]
           b == calc_in.pull_requests[j]
       IN /\ IsMerged(a) /\ Matches(a, 2) /\ Matches(a, 3)
          /\ IsMerged(b) /\ ~Matches(b, 2) /\ Matches(b, 3) /\ ~Matches(b, 1)
  /\ calc_out.dora.change_failure_rate.failure_types =
       [t \in {"hotfix", "bugfix"} |-> 1]

(* ------------------------------------------------ lead time of one PR *)
\* well-formed timestamps, t1 before t2 before t3
Stamps == {"t1", "t2", "t3"}

\* pull requests with their commit and review dates
DetailedPRs ==
  [createdAt : Stamps, mergedAt : Stamps \cup {"None"},
   commits : SUBSET Stamps, reviews : SUBSET Stamps]

\* the lead time breakdown of the one pull request that was fetched
LeadTime(pr) ==
  /\ ~calc_in.called
  /\ calc_in' = [commits |-> 0, pull_requests |-> <<pr>>, called |-> TRUE]
  /\ calc_out' = calculate_detailed_lead_time(<<pr>>)
  /\ UNCHANGED <<manager_vars, pool_vars, ml_vars>>

(* --------------------------------------- deployments of several weeks *)
\* the longest history of weeks with merges
MaxWeeks == 9

\* the numbers of pull requests merged in each week of a history, for the
\* histories just short of TREND_WEEKS and longer
WeeklyCounts ==
  UNION {[1..n -> {1, 2}] : n \in (TREND_WEEKS - 1)..MaxWeeks}

\* the pull requests of a history: counts[i] of them merged in week i
RECURSIVE PRsOfWeeks(_, _)
PRsOfWeeks(counts, i) ==
  IF i > Len(counts) THEN << >>
  ELSE Repeat([mergedAt |-> StampOfWeek[i], title |-> "feature", body |-> ""],
              counts[i]) \o PRsOfWeeks(counts, i + 1)

\* the deployment frequency of the pull requests that were fetched
Deployments(counts) ==
  /\ ~calc_in.called
  /\ calc_in' = [commits |-> 0, pull_requests |-> PRsOfWeeks(counts, 1),
                 called |-> TRUE]
  /\ calc_out' = calculate_deployment_frequency(PRsOfWeeks(counts, 1))
  /\ UNCHANGED <<manager_vars, pool_vars, ml_vars>>

\* the DORA functions applied one by one
NextDora ==
  \/ \E pr \in DetailedPRs : LeadTime(pr)
  \/ \E counts \in WeeklyCounts : Deployments(counts)

SpecDora == Init /\ [][NextDora]_vars

\* C22: for every merged pull request for which code_time, review_time and
\* merge_time are all available, total_lead_time = code_time + review_time +
\* merge_time, with code_time = created - first_commit, review_time =
\* first_review - created, merge_time = merged - last_review and
\* total_lead_time = merged - first_commit
C22_BreakdownSumsToTotal ==
  (calc_in.called /\ "total_lead_time_hours" \in DOMAIN calc_out
     /\ LET s == LeadTimeSamples(calc_in.pull_requests[1])
        IN s.lead # << >> /\ s.code # << >> /\ s.review # << >> /\ s.merge # << >>)
    => calc_out.total_lead_time_hours =
         calc_out.code_time_hours + calc_out.review_time_hours
           + calc_out.merge_time_hours

\* the merges of the week that is k-th from the end of a history, and of the
\* four weeks from the from-th to the (from + 3)-th from the end
WeekFromEnd(prs, k) ==
  Cardinality({i \in DOMAIN prs :
                 WeekRank(WeekKey(prs[i].mergedAt)) =
                   WeekRank(WeekKey(prs[Len(prs)].mergedAt)) - k})
FourWeeks(prs, from) ==
  WeekFromEnd(prs, from) + WeekFromEnd(prs, from + 1)
    + WeekFromEnd(prs, from + 2) + WeekFromEnd(prs, from + 3)

Admitted(at) == {i \in DOMAIN request_timestamps : InWindow(request_timestamps[i], at)}

\* C26: the rate limiter never admits more requests than the budget within any
\* sliding one-hour window, concurrent check_rate_limit calls included: at
\* every moment the admissions recorded inside the window ending now number at
\* most MAX_REQUESTS_PER_HOUR.
C26_BudgetNeverExceeded == Cardinality(Admitted(now)) <= MAX_REQUESTS_PER_HOUR

\* start_background_worker / stop_background_worker called in any order, with
\* a thread slot free for every start
NextRestart ==
  \/ \E t \in Host : StartWorker(t, Len(WorkerSlots))
  \/ \E t \in Host : StopWorker(t)
  \/ \E t \in Host : StopReturn(t)
  \/ \E w \in Workers : WorkerLoop(w)
  \/ \E w \in Workers : WorkerTimeout(w)
  \/ Tick

SpecRestart == Init /\ [][NextRestart]_vars

\* C27: at most one background worker loop is active at any time, across any
\* sequence of start and stop calls, a start right after a stop included.
C27_AtMostOneWorkerLoop == Cardinality({w \in Workers : Alive(w)}) <= 1

\* the key of the task a worker took off the queue is on the queue again
Requeued(w) ==
  \E i \in DOMAIN priority_queue :
    /\ priority_queue[i].email = call[w].email
    /\ priority_queue[i].scope = call[w].scope

\* C28: every refresh deferred by the rate limiter is eventually executed, even
\* if another refresh of its key is in progress when the task is dequeued: when
\* the worker is finished with a task that found its key in progress, the task
\* has either reached the fetch or is on the queue again to be retried.
C28_DeferredTaskNotDropped ==
  \A w \in Workers :
    (pc[w] = "done" /\ result[w] = Fail("refresh_in_progress"))
      => ("fetch" \in effects[w] \/ Requeued(w))

(* ------------------------------------- forecasting: policy and failures *)

\* the routine the policy names for a call about metric k with a history of
\* len entries and a model trained age_hours ago
PolicyRoutine(k, len, age_hours) ==
  IF k \notin DOMAIN models THEN "full"
  ELSE IF age_hours > MAX_MODEL_AGE_DAYS * 24 THEN "full"
  ELSE IF detect_new_data_points(Analyzer, [len |-> len], k)
            >= CONTINUOUS_LEARNING_THRESHOLD
       THEN IF models[k].supports_incremental THEN "incremental" ELSE "full"
       ELSE "none"

\* C24: with at least MIN_FORECAST_POINTS of history the policy is applied in
\* order: no model gives a full train; a model older than MAX_MODEL_AGE_DAYS
\* gives a full train; otherwise 5 or more new points give an incremental
\* update of a model that supports it and a full retrain of one that does not;
\* otherwise nothing is trained and model, scaler and metadata stay as they
\* were. (A routine that ran and failed returns False.)
C24_PolicyInOrder ==
  [][(MLStep("train") /\ ml_call'.len >= MIN_FORECAST_POINTS)
       => LET k == ml_call'.metric
              e == PolicyRoutine(k, ml_call'.len, ml_call'.age_hours)
          IN /\ e = "full" => (ml_call'.did = "full" \/ ~ml_call'.ret)
             /\ e = "incremental"
                  => (ml_call'.did \in {"incremental", "full"} \/ ~ml_call'.ret)
             /\ e = "none"
                  => /\ ml_call'.did = "none"
                     /\ InMemory(AnalyzerAfter, k) = InMemory(Analyzer, k)
    ]_vars

\* C30: a train_forecasting_model call that returns failure leaves the
\* in-memory model, scaler, metadata and last-training record of its metric
\* exactly as they were before the call
C30_FailureChangesNothing ==
  [][(MLStep("train") /\ ~ml_call'.ret)
       => LET k == ml_call'.metric
          IN /\ InMemory(AnalyzerAfter, k) = InMemory(Analyzer, k)
             /\ DictGet(last_training_data', k, PyNone) =
                  DictGet(last_training_data, k, PyNone)
    ]_vars

(* ----------------------------------------------- clear_cache (517 - 528) *)
\* the patterns clear_cache is called with: None, an email, a scope
Patterns == {"None"} \cup Emails \cup {"tracked"}

\* 520: pattern in k, for the keys f"user_metrics_{email}_{scope}"
PatternIn(pattern, k) == pattern = k[2] \/ pattern = k[3]

\* 519 - 522: keys_to_remove
keys_to_remove(pattern) ==
  IF pattern # "None" THEN {k \in DOMAIN cache : PatternIn(pattern, k)}
  ELSE DOMAIN cache

\* 517 - 522: clear_cache(pattern) lists the keys it is going to remove
ClearCache(t, pattern) ==
  /\ t \in Callers /\ pc[t] = "idle"
  /\ calls_made < MaxCalls
  /\ calls_made' = calls_made + 1
  /\ call' = [call EXCEPT ![t] = [keys_to_remove |-> keys_to_remove(pattern),
                                  key |-> "None"]]
  /\ Goto(t, IF keys_to_remove(pattern) = {} THEN "done" ELSE "clear_pop")
  /\ UNCHANGED <<outside, now, shared, background_worker_running, worker_thread,
                 tasks_created, processed, rl_now, effects, result>>

\* 524 - 525: for key in keys_to_remove: self.cache.pop(key, None); the keys
\* are taken in the order of the dict, which is any order here
ClearPop(t) ==
  /\ pc[t] = "clear_pop"
  /\ \E k \in call[t].keys_to_remove :
       /\ cache' = DictPop(cache, k)
       /\ call' = [call EXCEPT ![t].key = k]
  /\ Goto(t, "clear_pop_stamp")
  /\ UNCHANGED <<outside, now, cache_timestamps, refresh_locks, request_timestamps,
                 priority_queue, control, tasks_created, processed, rl_now,
                 effects, result>>

\* 526: self.cache_timestamps.pop(key, None), and the next key
ClearPopStamp(t) ==
  /\ pc[t] = "clear_pop_stamp"
  /\ cache_timestamps' = DictPop(cache_timestamps, call[t].key)
  /\ call' = [call EXCEPT ![t].keys_to_remove = @ \ {call[t].key}]
  /\ Goto(t, IF call[t].keys_to_remove = {call[t].key}
             THEN "done" ELSE "clear_pop")
  /\ UNCHANGED <<outside, now, cache, refresh_locks, request_timestamps,
                 priority_queue, control, tasks_created, processed, rl_now,
                 effects, result>>

\* one thread refreshes while any thread may clear the cache
NextCache ==
  \/ \E t \in Host : \E e \in Emails : \E s \in Scopes : \E f \in BOOLEAN :
       Call(t, e, s, f)
  \/ \E t \in Host : CheckCache(t)
  \/ \E t \in Host : CheckLock(t)
  \/ \E t \in Host : Acquire(t)
  \/ \E t \in Host : RlPrune(t)
  \/ \E t \in Host : RlCheck(t)
  \/ \E t \in Host : RlAppend(t)
  \/ \E t \in Host : Enqueue(t)
  \/ \E t \in Host : GetUser(t)
  \/ \E t \in Host : RefreshGlobal(t)
  \/ \E t \in Host : RefreshTracked(t, MaxReposConcurrent)
  \/ \E t \in Host : CachePut(t)
  \/ \E t \in Host : CacheStamp(t)
  \/ \E t \in Host : Save(t)
  \/ \E t \in Host : FinCheck(t)
  \/ \E t \in Host : FinDel(t)
  \/ \E t \in Callers : Return(t)
  \/ \E t \in Callers : \E pattern \in Patterns : ClearCache(t, pattern)
  \/ \E t \in Callers : ClearPop(t)
  \/ \E t \in Callers : ClearPopStamp(t)
  \/ Tick

SpecCache == Init /\ [][NextCache]_vars

\* C29: the cache entry and the cache timestamp of a key change only when a
\* refresh of that key returns success or on clear_cache, a refresh that
\* returns success: false leaves both unchanged, and a key has a cache entry
\* exactly when it has a cache timestamp: whenever no call is running, the
\* keys of cache are the keys of cache_timestamps
C29_EntryIffTimestamp ==
  (\A t \in Callers : pc[t] \in {"idle", "done"})
    => DOMAIN cache = DOMAIN cache_timestamps

(* ------------------- forecast training inside and outside the refresh lock *)
\* refresh manager 185 - 240: the activity was fetched, the history holds
\* MIN_FORECAST_POINTS snapshots, and the loop over key_metrics enters
\* train_forecasting_model
TrainStart(t) ==
  /\ pc[t] = "refresh_global"
  /\ Did(t, "fetch")
  /\ Goto(t, "training")
  /\ UNCHANGED <<outside, now, shared, control, tasks_created, processed, call,
                 rl_now, result>>

\* what the collaborators can do after the training loop
AfterTrainingOutcomes == {"ok", "exception", "summarizer_raises"}

\* refresh manager 241 - 317: the training loop is over and
\* _refresh_global_metrics goes on to its result
TrainFinish(t) ==
  /\ pc[t] = "training"
  /\ \E out \in AfterTrainingOutcomes :
       LET r == refresh_global_metrics(out) IN
       /\ Returns(t, r) /\ Goto(t, AfterRefresh(r))
       /\ effects' = [effects EXCEPT ![t] =
                        @ \cup {"train"} \cup
                        (IF out = "summarizer_raises"
                         THEN {"summary_failed"} ELSE {})]
  /\ UNCHANGED <<outside, now, shared, control, tasks_created, processed, call,
                 rl_now>>

\* dashboard 1377 - 1380 -> ml_analyzer 1236 - 1286: a session renders the
\* learning status; get_continuous_learning_status calls
\* train_forecasting_model for its key_metrics on the analyzer all sessions
\* share (dashboard 87 - 89)
DashboardTrainStart(t) ==
  /\ t \in Callers /\ pc[t] = "idle"
  /\ calls_made < MaxCalls
  /\ calls_made' = calls_made + 1
  /\ Goto(t, "dash_training")
  /\ UNCHANGED <<outside, now, shared, background_worker_running, worker_thread,
                 tasks_created, processed, call, rl_now, effects, result>>

\* ml_analyzer 1286: get_continuous_learning_status returns
DashboardTrainFinish(t) ==
  /\ pc[t] = "dash_training"
  /\ Goto(t, "done")
  /\ UNCHANGED <<outside, now, shared, control, tasks_created, processed, call,
                 rl_now, effects, result>>

\* one thread refreshes while sessions render the learning status
NextTraining ==
  \/ \E t \in Host : \E e \in Emails : \E s \in Scopes : \E f \in BOOLEAN :
       Call(t, e, s, f)
  \/ \E t \in Host : CheckCache(t)
  \/ \E t \in Host : CheckLock(t)
  \/ \E t \in Host : Acquire(t)
  \/ \E t \in Host : RlPrune(t)
  \/ \E t \in Host : RlCheck(t)
  \/ \E t \in Host : RlAppend(t)
  \/ \E t \in Host : Enqueue(t)
  \/ \E t \in Host : GetUser(t)
  \/ \E t \in Host : RefreshGlobal(t)
  \/ \E t \in Host : TrainStart(t)
  \/ \E t \in Host : TrainFinish(t)
  \/ \E t \in Host : RefreshTracked(t, MaxReposConcurrent)
  \/ \E t \in Host : CachePut(t)
  \/ \E t \in Host : CacheStamp(t)
  \/ \E t \in Host : Save(t)
  \/ \E t \in Host : FinCheck(t)
  \/ \E t \in Host : FinDel(t)
  \/ \E t \in Callers : Return(t)
  \/ \E t \in Callers : DashboardTrainStart(t)
  \/ \E t \in Callers : DashboardTrainFinish(t)
  \/ Tick

SpecTraining == Init /\ [][NextTraining]_vars

\* the threads that are inside train_forecasting_model
Training == {t \in Callers : pc[t] \in {"training", "dash_training"}}

\* C25: no two train/update executions write the same forecast model key at
\* the same time: every thread that is training or updating a forecast model
\* holds the refresh lock of its refresh, and at most one thread is training
C25_TrainingUnderLock ==
  /\ \A t \in Training : KeyOf(t) \in refresh_locks
  /\ Cardinality(Training) <= 1

====
